---- MODULE Spec2Model ----
(***************************************************************************)
(* Terminal Mail (tmail): the SMTP delivery engine (mailer.py), the        *)
(* credential resolution of a server (config.py) and the editing session   *)
(* (composer.py), as state machines.                                        *)
(***************************************************************************)
EXTENDS Integers, Sequences, FiniteSets, TLC

\* ------------------------------------------------------------------------
\* Bounds of the model
\* ------------------------------------------------------------------------
MaxRetries == 2
MaxPorts == 2
MaxLines == 3

\* ------------------------------------------------------------------------
\* Values
\* ------------------------------------------------------------------------
\* Python's None
None == "<None>"

\* Python's None where a str (a sequence of characters) is expected
NoneStr == <<"<None>">>

\* the well-known SMTPS port (mailer.py:135) and the default port
SMTPS_PORT == 465
DEFAULT_SMTP_PORT == 587

PortValues == {SMTPS_PORT, DEFAULT_SMTP_PORT}

RECURSIVE SeqsUpTo(_, _)
SeqsUpTo(S, n) ==
    IF n = 0 THEN {<<>>}
    ELSE LET shorter == SeqsUpTo(S, n - 1)
         IN shorter \cup {Append(s, x) : s \in {t \in shorter : Len(t) = n - 1}, x \in S}

\* the port lists a server may carry ([] is accepted by the dataclass)
PortLists == SeqsUpTo(PortValues, MaxPorts)

\* Python truthiness of an optional string
Truthy(s) == s # None /\ s # ""

\* mutant: the except clause catches the MailerError too
Caught_m == {"SMTPException", "OSError", "MailerError"}

\* the exception classes send_email's except clause catches (mailer.py:81)
Caught == {"SMTPException", "OSError"}

\* ------------------------------------------------------------------------
\* Text: a str is a sequence of one-character strings, a text a sequence of
\* lines (content.split("\n"))
\* ------------------------------------------------------------------------
IsSpace(c) == c \in {" ", "\t", "\n"}

UpperCase ==
    <<"A", "B", "C", "D", "E", "F", "G", "H", "I", "J", "K", "L",
      "M", "N", "O", "P", "Q", "R", "S", "T", "U", "V", "W", "X", "Y", "Z">>
LowerCase ==
    <<"a", "b", "c", "d", "e", "f", "g", "h", "i", "j", "k", "l",
      "m", "n", "o", "p", "q", "r", "s", "t", "u", "v", "w", "x", "y", "z">>

\* str.lower() of one character
Lower(c) ==
    IF \E i \in 1..26 : UpperCase[i] = c
    THEN LowerCase[CHOOSE i \in 1..26 : UpperCase[i] = c]
    ELSE c

LowerStr(s) == [i \in 1..Len(s) |-> Lower(s[i])]

RECURSIVE LStrip(_)
LStrip(s) == IF s # <<>> /\ IsSpace(Head(s)) THEN LStrip(Tail(s)) ELSE s

RECURSIVE RStrip(_)
RStrip(s) ==
    IF s # <<>> /\ IsSpace(s[Len(s)]) THEN RStrip(SubSeq(s, 1, Len(s) - 1)) ELSE s

\* str.strip()
Strip(s) == RStrip(LStrip(s))

\* str.startswith(p)
StartsWith(s, p) == Len(s) >= Len(p) /\ SubSeq(s, 1, Len(p)) = p

\* str.find(sub) + 1: the first position where sub occurs in s, 0 if none
Find(s, sub) ==
    LET hits == {i \in 1..(Len(s) - Len(sub) + 1) : SubSeq(s, i, i + Len(sub) - 1) = sub}
    IN  IF hits = {} THEN 0 ELSE CHOOSE i \in hits : \A j \in hits : i <= j

\* "sub in s"
Contains(s, sub) == Find(s, sub) # 0

\* s.split(sub)[0]
Before(s, sub) == IF Contains(s, sub) THEN SubSeq(s, 1, Find(s, sub) - 1) ELSE s

\* the rest of s after the first occurrence of sub
After(s, sub) == SubSeq(s, Find(s, sub) + Len(sub), Len(s))

\* s.split(sub)
RECURSIVE Split(_, _)
Split(s, sub) ==
    IF Contains(s, sub) THEN <<Before(s, sub)>> \o Split(After(s, sub), sub) ELSE <<s>>

\* sep.join(parts)
RECURSIVE Join(_, _)
Join(parts, sep) ==
    IF parts = <<>> THEN <<>>
    ELSE IF Len(parts) = 1 THEN parts[1]
    ELSE parts[1] \o sep \o Join(Tail(parts), sep)

RECURSIVE DropEmpty(_)
DropEmpty(parts) ==
    IF parts = <<>> THEN <<>>
    ELSE IF Head(parts) = <<>> THEN DropEmpty(Tail(parts))
    ELSE <<Head(parts)>> \o DropEmpty(Tail(parts))

\* [addr.strip() for addr in s.split(",") if addr.strip()] (composer.py:208)
AddrList(s) ==
    LET parts == Split(s, <<",">>)
    IN  DropEmpty([i \in 1..Len(parts) |-> Strip(parts[i])])

\* ------------------------------------------------------------------------
\* parse_template (composer.py:139-236)
\* ------------------------------------------------------------------------
TEMPLATE_SEPARATOR == <<"-", "-", "-">>
COMMENT_MARK == <<"#">>
ANNOTATION == <<" ", " ", "#">>

\* mutant: the lines compared as they are, not trimmed
SeparatorIdx_m(lines) ==
    LET hits == {i \in 1..Len(lines) : lines[i] = TEMPLATE_SEPARATOR}
    IN  IF hits = {} THEN 0 ELSE CHOOSE i \in hits : \A j \in hits : i <= j

\* the index of the first line whose trimmed form is the separator, 0 if
\* none (composer.py:154-158)
SeparatorIdx(lines) ==
    LET hits == {i \in 1..Len(lines) : Strip(lines[i]) = TEMPLATE_SEPARATOR}
    IN  IF hits = {} THEN 0 ELSE CHOOSE i \in hits : \A j \in hits : i <= j

\* headers.get(key, "")
Get(headers, key) == IF key \in DOMAIN headers THEN headers[key] ELSE <<>>

\* mutant: a repeated key always appends, to an empty value too
HeaderStep_m(headers, rawLine) ==
    LET line == Strip(rawLine)
    IN  IF line = <<>> \/ StartsWith(line, COMMENT_MARK) THEN headers
        ELSE IF ~Contains(line, <<":">>) THEN headers
        ELSE LET key == LowerStr(Strip(Before(line, <<":">>)))
                 v0 == Strip(After(line, <<":">>))
                 value == IF Contains(v0, ANNOTATION) THEN Strip(Before(v0, ANNOTATION))
                          ELSE v0
             IN  IF key \in DOMAIN headers
                 THEN [headers EXCEPT ![key] = headers[key] \o <<",", " ">> \o value]
                 ELSE (key :> value) @@ headers

\* one header line folded into the dict (composer.py:171-192)
HeaderStep(headers, rawLine) ==
    LET line == Strip(rawLine)
    IN  IF line = <<>> \/ StartsWith(line, COMMENT_MARK) THEN headers
        ELSE IF ~Contains(line, <<":">>) THEN headers
        ELSE LET key == LowerStr(Strip(Before(line, <<":">>)))
                 v0 == Strip(After(line, <<":">>))
                 value == IF Contains(v0, ANNOTATION) THEN Strip(Before(v0, ANNOTATION))
                          ELSE v0
             IN  IF key \in DOMAIN headers /\ headers[key] # <<>>
                 THEN [headers EXCEPT ![key] = headers[key] \o <<",", " ">> \o value]
                 ELSE (key :> value) @@ headers

RECURSIVE ParseHeaders(_, _)
ParseHeaders(headers, lines) ==
    IF lines = <<>> THEN headers
    ELSE ParseHeaders(HeaderStep(headers, Head(lines)), Tail(lines))

ComposedEmail(to, cc, bcc, from_addr, from_name, reply_to, subject, body, cancelled) ==
    [to |-> to, cc |-> cc, bcc |-> bcc, from_addr |-> from_addr,
     from_name |-> from_name, reply_to |-> reply_to, subject |-> subject,
     body |-> body, cancelled |-> cancelled]

\* result: [exc |-> None, value |-> ComposedEmail] or
\* [exc |-> "ComposerError", why |-> "missing separator"]
parse_template(lines) ==
    LET sep == SeparatorIdx(lines)
        headers == ParseHeaders(<<>>, SubSeq(lines, 1, sep - 1))
        from_raw == Get(headers, <<"f", "r", "o", "m">>)
        angled == Contains(from_raw, <<"<">>) /\ Contains(from_raw, <<">">>)
        parts == Split(from_raw, <<"<">>)
        from_name == IF angled /\ Strip(parts[1]) # <<>> THEN Strip(parts[1]) ELSE NoneStr
        from_addr == IF angled THEN Strip(Before(parts[2], <<">">>)) ELSE from_raw
        rt0 == Get(headers, <<"r", "e", "p", "l", "y", "-", "t", "o">>)
        rt == IF Contains(rt0, ANNOTATION) THEN Strip(Before(rt0, ANNOTATION)) ELSE rt0
        body == Strip(Join(SubSeq(lines, sep + 1, Len(lines)), <<"\n">>))
    IN  IF sep = 0
        THEN [exc |-> "ComposerError", why |-> "missing separator"]
        ELSE [exc |-> None,
              value |-> ComposedEmail(AddrList(Get(headers, <<"t", "o">>)),
                                      AddrList(Get(headers, <<"c", "c">>)),
                                      AddrList(Get(headers, <<"b", "c", "c">>)),
                                      from_addr, from_name,
                                      IF rt # <<>> THEN rt ELSE NoneStr,
                                      Get(headers, <<"s", "u", "b", "j", "e", "c", "t">>),
                                      body, FALSE)]

\* ------------------------------------------------------------------------
\* SmtpServer.get_password (config.py:45-79)
\* ------------------------------------------------------------------------
\* base64.b64decode(s).decode("utf-8") on the sample secrets; "error" when
\* the decoder raises
B64Decode(s) ==
    CASE s = "c2VjcmV0MTIz" -> "secret123"
      [] s = "cGFzcw==" -> "pass"
      [] s = "%%%" -> ""
      [] OTHER -> "error"

\* what the password command did: exit 0 with some output, a non-zero exit,
\* or no exit within the timeout
CmdOutcomes == {[kind |-> "exit0", stdout |-> "from_command"],
                [kind |-> "exit0", stdout |-> ""],
                [kind |-> "nonzero", stdout |-> ""],
                [kind |-> "timeout", stdout |-> ""]}

\* the values of password_encoding
ENC_PLAIN == <<"p", "l", "a", "i", "n">>
ENC_BASE64 == <<"b", "a", "s", "e", "6", "4">>

\* the credential sources of the servers send_email is called with
CredentialSources ==
    {[password |-> None, password_cmd |-> None, password_encoding |-> ENC_PLAIN],
     [password |-> "secret123", password_cmd |-> None, password_encoding |-> ENC_PLAIN],
     [password |-> "c2VjcmV0MTIz", password_cmd |-> None, password_encoding |-> ENC_BASE64],
     [password |-> "not-valid-base64!!!", password_cmd |-> None,
      password_encoding |-> ENC_BASE64],
     [password |-> "secret123", password_cmd |-> "pass show smtp",
      password_encoding |-> ENC_PLAIN]}

\* result: [exc |-> None, value |-> secret or None] or [exc |-> "ConfigError"]
get_password(server, cmd) ==
    IF Truthy(server.password_cmd)
    THEN IF cmd.kind = "timeout" THEN [exc |-> "ConfigError", value |-> None]
         ELSE IF cmd.kind = "nonzero" THEN [exc |-> "ConfigError", value |-> None]
         ELSE [exc |-> None, value |-> cmd.stdout]
    ELSE IF ~Truthy(server.password) THEN [exc |-> None, value |-> None]
    ELSE IF LowerStr(server.password_encoding) = ENC_BASE64
         THEN IF B64Decode(server.password) = "error"
              THEN [exc |-> "ConfigError", value |-> None]
              ELSE [exc |-> None, value |-> B64Decode(server.password)]
         ELSE [exc |-> None, value |-> server.password]

\* ------------------------------------------------------------------------
\* One delivery cycle: _send_via_smtp (mailer.py:102-186)
\* ------------------------------------------------------------------------
QuitOutcomes == {"ok", "SMTPException", "OSError"}

\* the step of the cycle that the network or the server makes fail
FaultPoints == {"none", "connect", "starttls", "login", "sendmail", "noop"}

\* the refusal dicts sendmail can return: smtplib raises when every
\* recipient is refused, so a returned dict names a proper subset
RefusalSets(rcpts) == {r \in SUBSET rcpts : r # rcpts}

\* the class of the error a failing step raises: a refused connection is an
\* OSError, a protocol failure an SMTPException
FaultClass(step) == IF step = "connect" THEN "OSError" ELSE "SMTPException"

\* what the network and the server do in one cycle: the step that fails (if
\* it is reached), the recipients the server refuses, and what quit does
Envs(rcpts) ==
    {[fail |-> f, refused |-> {}, quit |-> q] : f \in FaultPoints, q \in QuitOutcomes}
    \cup {[fail |-> "none", refused |-> r, quit |-> q] :
            r \in RefusalSets(rcpts) \ {{}}, q \in QuitOutcomes}

\* the outcome of a step under env
StepOf(env, step) == IF env.fail = step THEN FaultClass(step) ELSE "ok"

\* mutant: the refusal dict ignored
IsRefused_m(refused) == FALSE

\* "if refused:" (mailer.py:174)
IsRefused(refused) == refused # {}

\* mutant: a username alone is enough
ShouldLogin_m(username, pw) == Truthy(username)

\* "if username and password:" (mailer.py:156)
ShouldLogin(username, pw) == Truthy(username) /\ Truthy(pw)

\* the finally clause (mailer.py:182-186): quit is always attempted, an
\* SMTPException of quit is swallowed, any other error of quit replaces the
\* outcome of the body
Finally(body, env) ==
    IF env.quit = "OSError"
    THEN [body EXCEPT !.steps = Append(body.steps, "quit"),
                      !.outcome = "OSError", !.quitErr = env.quit]
    ELSE [body EXCEPT !.steps = Append(body.steps, "quit"), !.quitErr = env.quit]

Cyc(steps, outcome, refused, pw) ==
    [steps |-> steps, outcome |-> outcome, refused |-> refused,
     pwUsed |-> pw, quitErr |-> "none", port |-> 0]

\* the outcome of one cycle is "return" or the class of the exception that
\* leaves _send_via_smtp; refused is the refusal dict sendmail returned
SendViaSmtp(from, rcpts, port, username, pw, use_tls, env) ==
    LET tls == port # SMTPS_PORT /\ use_tls
        s1 == <<"connect">>
        s2 == IF tls THEN Append(s1, "starttls") ELSE s1
        auth == ShouldLogin(username, pw)
        s3 == IF auth THEN Append(s2, "login") ELSE s2
        s4 == Append(s3, "sendmail")
        s5 == Append(s4, "noop")
    IN  IF StepOf(env, "connect") # "ok" THEN Cyc(s1, StepOf(env, "connect"), {}, pw)
        ELSE IF tls /\ StepOf(env, "starttls") # "ok"
             THEN Cyc(s2, StepOf(env, "starttls"), {}, pw)
        ELSE IF auth /\ StepOf(env, "login") # "ok"
             THEN Finally(Cyc(s3, StepOf(env, "login"), {}, pw), env)
        ELSE IF ~Truthy(from) THEN Finally(Cyc(s3, "MailerError", {}, pw), env)
        ELSE IF StepOf(env, "sendmail") # "ok"
             THEN Finally(Cyc(s4, StepOf(env, "sendmail"), {}, pw), env)
        ELSE IF IsRefused(env.refused)
             THEN Finally(Cyc(s4, "MailerError", env.refused, pw), env)
        ELSE IF StepOf(env, "noop") # "ok"
             THEN Finally(Cyc(s5, StepOf(env, "noop"), env.refused, pw), env)
        ELSE Finally(Cyc(s5, "return", env.refused, pw), env)

\* ------------------------------------------------------------------------
\* send_email (mailer.py:30-99)
\* ------------------------------------------------------------------------
VARIABLES
    pc,           \* position in send_email
    smtp_server,  \* the SmtpServer argument
    retries,      \* the retries argument
    msgFrom,      \* msg["From"]
    recipients,   \* the recipients argument
    password,     \* local: the resolved secret
    attempt,      \* local: the outer loop variable
    attempts,     \* local
    portIdx,      \* position of the inner loop in smtp_server.ports
    last_error,   \* local
    result,       \* the SendResult returned, or the exception raised
    log,          \* history: get_password calls, cycles and waits, in order
    lastCycle,    \* history: the delivery cycle the inner loop just performed
    cpc,          \* position in compose_interactively
    template,     \* the text generate_template returned
    environ,      \* os.environ: VISUAL and EDITOR
    file,         \* the temporary file: exists, content, mtime
    mtime_before, \* local
    editor,       \* local: the editor command
    returncode,   \* result.returncode of the editor
    session,      \* the states the editing session went through, in order
    pending,      \* the return value or exception on its way through finally
    composed,     \* what compose_interactively returned or raised
    ops,          \* history: the operations on the temporary file, in order
    rpc,          \* position in _run
    rargs,        \* what _run is given: the arguments and what its callees answer
    locals,       \* local: config, identity, smtp_server, email_data, ...
    rlog,         \* history: the calls _run made, in order
    exit_code,    \* the exit code main returns for this run
    tpc,          \* position in a generate_template / parse_template round
    fields,       \* the arguments of generate_template, the registry included
    generated,    \* the lines of the text generate_template returned
    parsed,       \* what parse_template made of them
    vpc,          \* position in a validate call
    email_data,   \* the EmailData
    paths,        \* the file system: what each attachment path is
    errors,       \* the list validate returned
    kpc,          \* position in the life of a Config
    toml,         \* the configuration file, or the arguments of Config(...)
    config,       \* the Config, or the ConfigError load_config raised
    answer        \* what the last lookup on the Config returned

sendVars == <<pc, smtp_server, retries, msgFrom, recipients, password, attempt,
              attempts, portIdx, last_error, result, log, lastCycle>>

composeVars == <<cpc, template, environ, file, mtime_before, editor, returncode,
                 session, pending, composed, ops>>

runVars == <<rpc, rargs, locals, rlog, exit_code>>

templateVars == <<tpc, fields, generated, parsed>>

validateVars == <<vpc, email_data, paths, errors>>

configVars == <<kpc, toml, config, answer>>

laterVars == <<runVars, templateVars, validateVars, configVars>>

vars == <<sendVars, composeVars, laterVars>>

\* _run is not running
RunIdle ==
    rpc = "idle" /\ rargs = <<>> /\ locals = <<>> /\ rlog = <<>> /\ exit_code = None

\* no template is being generated
TemplateIdle == tpc = "idle" /\ fields = <<>> /\ generated = <<>> /\ parsed = <<>>

\* nothing is being validated
ValidateIdle == vpc = "idle" /\ email_data = <<>> /\ paths = <<>> /\ errors = <<>>

\* no configuration is loaded
ConfigIdle == kpc = "idle" /\ toml = <<>> /\ config = <<>> /\ answer = <<>>

LaterIdle == RunIdle /\ TemplateIdle /\ ValidateIdle /\ ConfigIdle

NoCycle == [steps |-> <<>>, outcome |-> "none", refused |-> {},
            pwUsed |-> None, quitErr |-> "none", port |-> 0]

Servers ==
    {[ports |-> p, user |-> u, password |-> c.password,
      password_cmd |-> c.password_cmd, password_encoding |-> c.password_encoding,
      use_tls |-> t] :
        p \in PortLists, u \in {None, "user"}, c \in CredentialSources, t \in BOOLEAN}

\* the recipient lists send_email is called with
RecipientLists == {{"to@example.com"}, {"to@example.com", "cc@example.com"}}

SendInit ==
    /\ pc = "start"
    /\ smtp_server \in Servers
    /\ retries \in 0..MaxRetries
    /\ msgFrom \in {None, "sender@example.com"}
    /\ recipients \in RecipientLists
    /\ password = None
    /\ attempt = -1
    /\ attempts = 0
    /\ portIdx = 0
    /\ last_error = None
    /\ result = [kind |-> "running"]
    /\ log = <<>>
    /\ lastCycle = NoCycle

\* the entries of the history: the call of get_password with what it returned
\* or raised, a delivery cycle of an outer attempt at a position of the port
\* list, a wait after an outer attempt
PasswordEntry(r) == <<"get_password", r.value, IF r.exc # None THEN r.exc ELSE "return">>
CycleEntry(a, pos, c) ==
    <<"cycle", a, pos, IF c.outcome \in Caught THEN "caught" ELSE c.outcome>>
WaitEntry(a, time) == <<"wait", a, time>>

\* mutant: range(retries), the first attempt not counted
AttemptRange_m(n) == 0..(n - 1)

\* range(retries + 1) (mailer.py:55)
AttemptRange(n) == 0..n

\* mutant: the port list walked backwards
PortAt_m(ports, i) == ports[Len(ports) + 1 - i]

\* the port the inner loop visits at its i-th iteration (mailer.py:58)
PortAt(ports, i) == ports[i]

\* mutant: a wait after the final attempt too
ShouldWait_m(a, n) == a <= n

\* "if attempt < retries:" (mailer.py:88)
ShouldWait(a, n) == a < n

\* mutant: a linear backoff
WaitTime_m(a) == 2 * a

\* wait_time = 2 ** attempt (mailer.py:89)
WaitTime(a) == 2 ^ a

\* mutant: the 0-based loop variable reported
AttemptsOf_m(a) == a

\* attempts = attempt + 1 (mailer.py:56)
AttemptsOf(a) == a + 1

\* mutant: a failed resolution swallowed, the call goes on without a secret
GetPassword_m ==
    /\ pc = "start"
    /\ \E cmd \in CmdOutcomes :
         LET r == get_password(smtp_server, cmd)
         IN  /\ log' = Append(log, PasswordEntry(r))
             /\ pc' = "for_attempt"
             /\ password' = r.value
    /\ UNCHANGED <<smtp_server, retries, msgFrom, recipients, attempt, attempts,
                   portIdx, last_error, result, lastCycle>>
    /\ UNCHANGED <<composeVars, laterVars>>

\* password = smtp_server.get_password() (mailer.py:53)
GetPassword ==
    /\ pc = "start"
    /\ \E cmd \in CmdOutcomes :
         LET r == get_password(smtp_server, cmd)
         IN  /\ log' = Append(log, PasswordEntry(r))
             /\ IF r.exc # None
                THEN /\ pc' = "raised"
                     /\ result' = [kind |-> "raised", exc |-> r.exc]
                     /\ UNCHANGED password
                ELSE /\ pc' = "for_attempt"
                     /\ password' = r.value
                     /\ UNCHANGED result
    /\ UNCHANGED <<smtp_server, retries, msgFrom, recipients, attempt, attempts,
                   portIdx, last_error, lastCycle>>
    /\ UNCHANGED <<composeVars, laterVars>>

\* for attempt in range(retries + 1): attempts = attempt + 1 (mailer.py:55-56)
NextAttempt ==
    /\ pc = "for_attempt"
    /\ attempt + 1 \in AttemptRange(retries)
    /\ attempt' = attempt + 1
    /\ attempts' = AttemptsOf(attempt + 1)
    /\ portIdx' = 0
    /\ pc' = "for_port"
    /\ UNCHANGED <<smtp_server, retries, msgFrom, recipients, password,
                   last_error, result, log, lastCycle>>
    /\ UNCHANGED <<composeVars, laterVars>>

\* one iteration of "for port in smtp_server.ports" (mailer.py:58-85)
TryPort ==
    /\ pc = "for_port"
    /\ portIdx < Len(smtp_server.ports)
    /\ \E env \in Envs(recipients) :
         LET port == PortAt(smtp_server.ports, portIdx + 1)
             c == [SendViaSmtp(msgFrom, recipients, port, smtp_server.user,
                               password, smtp_server.use_tls, env)
                   EXCEPT !.port = port]
         IN  /\ portIdx' = portIdx + 1
             /\ lastCycle' = c
             /\ log' = Append(log, CycleEntry(attempt, portIdx + 1, c))
             /\ IF c.outcome = "return"
                THEN /\ pc' = "returned"
                     /\ result' = [kind |-> "returned", success |-> TRUE,
                                   attempts |-> attempts, smtp_response |-> "250 OK",
                                   error |-> None]
                     /\ UNCHANGED last_error
                ELSE IF c.outcome \in Caught
                THEN /\ last_error' = c.outcome
                     /\ UNCHANGED <<pc, result>>
                ELSE /\ pc' = "raised"
                     /\ result' = [kind |-> "raised", exc |-> c.outcome]
                     /\ UNCHANGED last_error
    /\ UNCHANGED <<smtp_server, retries, msgFrom, recipients, password, attempt,
                   attempts>>
    /\ UNCHANGED <<composeVars, laterVars>>

\* the inner loop is exhausted and another attempt remains: time.sleep
\* (mailer.py:88-92)
Backoff ==
    /\ pc = "for_port"
    /\ portIdx = Len(smtp_server.ports)
    /\ ShouldWait(attempt, retries)
    /\ log' = Append(log, WaitEntry(attempt, WaitTime(attempt)))
    /\ pc' = "for_attempt"
    /\ lastCycle' = NoCycle
    /\ UNCHANGED <<smtp_server, retries, msgFrom, recipients, password, attempt,
                   attempts, portIdx, last_error, result>>
    /\ UNCHANGED <<composeVars, laterVars>>

\* the inner loop is exhausted and no attempt remains: no wait
NoBackoff ==
    /\ pc = "for_port"
    /\ portIdx = Len(smtp_server.ports)
    /\ ~ShouldWait(attempt, retries)
    /\ pc' = "for_attempt"
    /\ lastCycle' = NoCycle
    /\ UNCHANGED <<smtp_server, retries, msgFrom, recipients, password, attempt,
                   attempts, portIdx, last_error, result, log>>
    /\ UNCHANGED <<composeVars, laterVars>>

\* the outer loop is exhausted: the failure result (mailer.py:94-99)
ReturnFailure ==
    /\ pc = "for_attempt"
    /\ attempt + 1 \notin AttemptRange(retries)
    /\ pc' = "returned"
    /\ result' = [kind |-> "returned", success |-> FALSE, attempts |-> attempts,
                  smtp_response |-> None,
                  error |-> IF last_error # None THEN last_error ELSE "Unknown error"]
    /\ UNCHANGED <<smtp_server, retries, msgFrom, recipients, password, attempt,
                   attempts, portIdx, last_error, log, lastCycle>>
    /\ UNCHANGED <<composeVars, laterVars>>

\* send_email is not running
SendIdle ==
    /\ pc = "idle"
    /\ smtp_server = [ports |-> <<>>, user |-> None, password |-> None,
                      password_cmd |-> None, password_encoding |-> ENC_PLAIN,
                      use_tls |-> TRUE]
    /\ retries = 0
    /\ msgFrom = None
    /\ recipients = {}
    /\ password = None
    /\ attempt = -1
    /\ attempts = 0
    /\ portIdx = 0
    /\ last_error = None
    /\ result = [kind |-> "running"]
    /\ log = <<>>
    /\ lastCycle = NoCycle

\* ------------------------------------------------------------------------
\* compose_interactively (composer.py:239-327)
\* ------------------------------------------------------------------------

\* sample lines of a template
LINE_TO == <<"T", "o", ":", " ", "a", ",", " ", "b">>
LINE_FROM == <<"F", "r", "o", "m", ":", " ", "N", " ", "<", "s", ">", " ", " ", "#", " ", "[", "w", "]">>
LINE_SEP_PADDED == <<" ", "-", "-", "-", " ">>
LINE_TEXT == <<"h", "i">>
LINE_COMMENT == <<"#", " ", "c">>
LINE_TO_EMPTY == <<"T", "o", ":", " ">>

\* the lines an edited file is made of
LineSamples ==
    {LINE_TO,
     LINE_FROM,
     TEMPLATE_SEPARATOR,
     LINE_SEP_PADDED,
     LINE_TEXT}

\* the texts an editor may leave in the file
Texts == SeqsUpTo(LineSamples, MaxLines)

\* texts generate_template returns (composer.py:83-136): comment lines, the
\* editable headers, the separator and the body
SampleTemplates ==
    {<<LINE_COMMENT, LINE_TO_EMPTY, TEMPLATE_SEPARATOR, <<>>>>,
     <<LINE_COMMENT, LINE_TO, TEMPLATE_SEPARATOR, <<>>, LINE_TEXT>>}

\* mutant: EDITOR consulted before VISUAL
get_editor_m(env) ==
    IF Truthy(env.EDITOR) THEN env.EDITOR
    ELSE IF Truthy(env.VISUAL) THEN env.VISUAL
    ELSE "vi"

\* get_editor (composer.py:47-53)
get_editor(env) ==
    IF Truthy(env.VISUAL) THEN env.VISUAL
    ELSE IF Truthy(env.EDITOR) THEN env.EDITOR
    ELSE "vi"

\* mutant: the exit code ignored
EditorFailed_m(rc) == FALSE

\* "if result.returncode != 0:" (composer.py:299)
EditorFailed(rc) == rc # 0

\* mutant: an unmodified file never recognised
Unmodified_m(after, before) == after < before

\* "if mtime_after == mtime_before:" (composer.py:304)
Unmodified(after, before) == after = before

\* the cancelled result (composer.py:306-316)
CancelledEmail ==
    ComposedEmail(<<>>, <<>>, <<>>, <<>>, NoneStr, NoneStr, <<>>, <<>>, TRUE)

NoFile == [exists |-> FALSE, content |-> <<>>, mtime |-> 0]
NoOutcome == [kind |-> "none"]

ComposeIdle ==
    /\ cpc = "idle"
    /\ template = <<>>
    /\ environ = [VISUAL |-> None, EDITOR |-> None]
    /\ file = NoFile
    /\ mtime_before = 0
    /\ editor = None
    /\ returncode = 0
    /\ session = <<"NotStarted">>
    /\ pending = NoOutcome
    /\ composed = NoOutcome
    /\ ops = <<>>

ComposeInit ==
    /\ cpc = "NotStarted"
    /\ template \in SampleTemplates
    /\ environ \in [VISUAL : {None, "", "vim"}, EDITOR : {None, "", "nano"}]
    /\ file = NoFile
    /\ mtime_before = 0
    /\ editor = None
    /\ returncode = 0
    /\ session = <<"NotStarted">>
    /\ pending = NoOutcome
    /\ composed = NoOutcome
    /\ ops = <<>>

\* the temporary file is created and the template written (composer.py:283-289)
CreateTempFile ==
    /\ cpc = "NotStarted"
    /\ file' = [exists |-> TRUE, content |-> template, mtime |-> 0]
    /\ ops' = Append(ops, "create")
    /\ cpc' = "TempCreated"
    /\ UNCHANGED <<template, environ, mtime_before, editor, returncode, session,
                   pending, composed>>
    /\ UNCHANGED <<sendVars, laterVars>>

\* mtime_before is recorded and the editor started (composer.py:293-297)
StartEditor ==
    /\ cpc = "TempCreated"
    /\ mtime_before' = file.mtime
    /\ editor' = get_editor(environ)
    /\ ops' = Append(ops, "stat")
    /\ session' = Append(session, "EditorRunning")
    /\ cpc' = "EditorRunning"
    /\ UNCHANGED <<template, environ, file, returncode, pending, composed>>
    /\ UNCHANGED <<sendVars, laterVars>>

\* the editor, an external program: it may rewrite the file (with or without
\* a new modification time), touch it, or leave it alone, and exits with a code
EditorExit ==
    /\ cpc = "EditorRunning"
    /\ \E rc \in {0, 1}, text \in Texts \cup {file.content},
          mtime \in {file.mtime, file.mtime + 1} :
         /\ file' = [file EXCEPT !.content = text, !.mtime = mtime]
         /\ returncode' = rc
    /\ cpc' = "EditorExited"
    /\ UNCHANGED <<template, environ, mtime_before, editor, session, pending,
                   composed, ops>>
    /\ UNCHANGED <<sendVars, laterVars>>

\* the exit code check (composer.py:299-300)
CheckReturnCode ==
    /\ cpc = "EditorExited"
    /\ IF EditorFailed(returncode)
       THEN /\ pending' = [kind |-> "raised", exc |-> "ComposerError",
                           why |-> "editor exit code"]
            /\ session' = Append(session, "EditorFailed")
            /\ cpc' = "finally"
       ELSE /\ cpc' = "check_modified"
            /\ UNCHANGED <<pending, session>>
    /\ UNCHANGED <<template, environ, file, mtime_before, editor, returncode,
                   composed, ops>>
    /\ UNCHANGED <<sendVars, laterVars>>

\* the modification check (composer.py:303-316)
CheckModified ==
    /\ cpc = "check_modified"
    /\ ops' = Append(ops, "stat")
    /\ IF Unmodified(file.mtime, mtime_before)
       THEN /\ pending' = [kind |-> "returned", value |-> CancelledEmail]
            /\ session' = Append(session, "Unmodified")
            /\ cpc' = "finally"
       ELSE /\ session' = Append(session, "Modified")
            /\ cpc' = "read"
            /\ UNCHANGED pending
    /\ UNCHANGED <<template, environ, file, mtime_before, editor, returncode,
                   composed>>
    /\ UNCHANGED <<sendVars, laterVars>>

\* the file is read back and parsed (composer.py:319-320)
ReadAndParse ==
    /\ cpc = "read"
    /\ ops' = ops \o <<"read_text", "parse_template">>
    /\ LET r == parse_template(file.content)
       IN  IF r.exc # None
           THEN /\ pending' = [kind |-> "raised", exc |-> r.exc, why |-> r.why]
                /\ session' = Append(session, "ParseFailed")
           ELSE /\ pending' = [kind |-> "returned", value |-> r.value]
                /\ session' = Append(session, "Parsed")
    /\ cpc' = "finally"
    /\ UNCHANGED <<template, environ, file, mtime_before, editor, returncode,
                   composed>>
    /\ UNCHANGED <<sendVars, laterVars>>

\* mutant: an OSError of unlink leaves the function in place of the outcome
AfterUnlink_m(outcome, removed) ==
    IF removed THEN outcome
    ELSE [kind |-> "raised", exc |-> "OSError", why |-> "unlink"]

\* "except OSError: pass" (composer.py:326-327): what leaves the function is
\* the pending outcome, whether unlink removed the file or raised
AfterUnlink(outcome, removed) == outcome

\* the finally clause (composer.py:322-327): unlink, an OSError of which is
\* swallowed; then the pending return or exception leaves the function
Cleanup ==
    /\ cpc = "finally"
    /\ \E unlinked \in BOOLEAN :
         /\ file' = [file EXCEPT !.exists = ~unlinked]
         /\ composed' = AfterUnlink(pending, unlinked)
    /\ ops' = Append(ops, "unlink")
    /\ cpc' = "done"
    /\ UNCHANGED <<template, environ, mtime_before, editor, returncode, session,
                   pending>>
    /\ UNCHANGED <<sendVars, laterVars>>

\* ------------------------------------------------------------------------
\* Config and load_config (config.py:82-307)
\* ------------------------------------------------------------------------
\* the number of [[smtp_servers]] and of [[identities]] tables of a file
MaxEntries == 2

DEFAULT_RETRIES == 1

\* None, where the other values are records
Null == [null |-> TRUE]

\* truthiness of an optional str
TruthyStr(s) == s # NoneStr /\ s # <<>>

\* data.get(key, default)
Field(d, key, default) == IF key \in DOMAIN d THEN d[key] ELSE default

Ok(v) == [exc |-> None, value |-> v]
Err(why) == [exc |-> "ConfigError", why |-> why]

\* the first error of a list of results, or the list of their values
Collect(results) ==
    LET bad == {i \in 1..Len(results) : results[i].exc # None}
    IN  IF bad # {} THEN results[CHOOSE i \in bad : \A j \in bad : i <= j]
        ELSE Ok([i \in 1..Len(results) |-> results[i].value])

\* Identity and its __post_init__ (config.py:82-95)
Identity(name, email, display_name, server, reply_to) ==
    [name |-> name, email |-> email, display_name |-> display_name,
     smtp_server |-> server,
     reply_to |-> IF reply_to = <<>> THEN <<email>> ELSE reply_to]

\* mutant: the last matching entry is returned
FirstMatch_m(entries, key, wanted) ==
    LET hits == {i \in 1..Len(entries) : LowerStr(entries[i][key]) = LowerStr(wanted)}
    IN  IF hits = {} THEN Null
        ELSE entries[CHOOSE i \in hits : \A j \in hits : i >= j]

\* "for x in entries: if x.key.lower() == wanted.lower(): return x" and
\* "return None" (config.py:123-142)
FirstMatch(entries, key, wanted) ==
    LET hits == {i \in 1..Len(entries) : LowerStr(entries[i][key]) = LowerStr(wanted)}
    IN  IF hits = {} THEN Null
        ELSE entries[CHOOSE i \in hits : \A j \in hits : i <= j]

get_smtp_server(cfg, name) == FirstMatch(cfg.smtp_servers, "name", name)

get_identity(cfg, name) == FirstMatch(cfg.identities, "name", name)

get_identity_by_email(cfg, email) == FirstMatch(cfg.identities, "email", email)

\* mutant: the fallback is the last identity
get_default_identity_m(cfg) ==
    LET wanted == cfg.defaults.default_identity
        named == IF TruthyStr(wanted) THEN get_identity(cfg, wanted) ELSE Null
    IN  IF named # Null THEN named
        ELSE IF cfg.identities # <<>> THEN cfg.identities[Len(cfg.identities)]
        ELSE Null

\* Config.get_default_identity (config.py:144-150)
get_default_identity(cfg) ==
    LET wanted == cfg.defaults.default_identity
        named == IF TruthyStr(wanted) THEN get_identity(cfg, wanted) ELSE Null
    IN  IF named # Null THEN named
        ELSE IF cfg.identities # <<>> THEN cfg.identities[1]
        ELSE Null

get_smtp_for_identity(cfg, identity) == get_smtp_server(cfg, identity.smtp_server)

\* mutant: any password_encoding accepted
EncodingAllowed_m(enc) == TRUE

\* "password_encoding.lower() not in ("plain", "base64")" (config.py:196-197)
EncodingAllowed(enc) == LowerStr(enc) \in {ENC_PLAIN, ENC_BASE64}

\* _parse_smtp_server (config.py:183-213); a ports value of the file is
\* [int |-> n] or [list |-> <<...>>]
ParseSmtpServer(d) ==
    LET ports == Field(d, "ports", [list |-> <<DEFAULT_SMTP_PORT>>])
        enc == Field(d, "password_encoding", ENC_PLAIN)
    IN  IF ~TruthyStr(Field(d, "name", NoneStr)) THEN Err("server without name")
        ELSE IF ~TruthyStr(Field(d, "host", NoneStr)) THEN Err("server without host")
        ELSE IF ~EncodingAllowed(enc) THEN Err("invalid password_encoding")
        ELSE Ok([name |-> d.name, host |-> d.host,
                 ports |-> IF "int" \in DOMAIN ports THEN <<ports.int>> ELSE ports.list,
                 user |-> Field(d, "user", None),
                 password |-> Field(d, "password", None),
                 password_cmd |-> Field(d, "password_cmd", None),
                 password_encoding |-> enc,
                 use_tls |-> Field(d, "use_tls", TRUE)])

\* _parse_identity (config.py:216-244)
ParseIdentity(d, smtp_servers) ==
    LET ref == Field(d, "smtp_server", NoneStr)
    IN  IF ~TruthyStr(Field(d, "name", NoneStr)) THEN Err("identity without name")
        ELSE IF ~TruthyStr(Field(d, "email", NoneStr)) THEN Err("identity without email")
        ELSE IF ~TruthyStr(ref) THEN Err("identity without smtp_server")
        ELSE IF \A i \in 1..Len(smtp_servers) :
                    LowerStr(smtp_servers[i].name) # LowerStr(ref)
             THEN Err("unknown SMTP server")
        ELSE Ok(Identity(d.name, d.email, Field(d, "display_name", <<>>), ref,
                         Field(d, "reply_to", <<>>)))

\* _parse_defaults (config.py:247-254)
ParseDefaults(d) ==
    [retries |-> Field(d, "retries", DEFAULT_RETRIES),
     interactive |-> Field(d, "interactive", TRUE),
     skip_confirmation |-> Field(d, "skip_confirmation", FALSE),
     default_identity |-> Field(d, "default_identity", NoneStr)]

Config(defaults, smtp_servers, identities) ==
    [defaults |-> defaults, smtp_servers |-> smtp_servers, identities |-> identities]

\* load_config (config.py:257-307) of a file: [exists, valid, data]
load_config(f) ==
    LET defaults == ParseDefaults(Field(f.data, "defaults", <<>>))
        sdata == Field(f.data, "smtp_servers", <<>>)
        idata == Field(f.data, "identities", <<>>)
        servers == Collect([i \in 1..Len(sdata) |-> ParseSmtpServer(sdata[i])])
        idents == Collect([i \in 1..Len(idata) |-> ParseIdentity(idata[i], servers.value)])
    IN  IF ~f.exists THEN Err("not found")
        ELSE IF ~f.valid THEN Err("invalid TOML")
        ELSE IF sdata = <<>> THEN Err("no SMTP servers")
        ELSE IF servers.exc # None THEN servers
        ELSE IF idata = <<>> THEN Err("no identities")
        ELSE IF idents.exc # None THEN idents
        ELSE IF /\ TruthyStr(defaults.default_identity)
                /\ \A i \in 1..Len(idents.value) :
                     LowerStr(idents.value[i].name) # LowerStr(defaults.default_identity)
             THEN Err("unknown default identity")
        ELSE Ok(Config(defaults, servers.value, idents.value))

\* create_empty_config (config.py:347-349)
create_empty_config == Config(ParseDefaults(<<>>), <<>>, <<>>)

\* the tables of the sample files: names, hosts and addresses are short
S1 == <<"S", "1">>
S2 == <<"S", "2">>
HOST == <<"h">>
W_MAIL == <<"w", "@", "x">>
H_MAIL == <<"h", "@", "x">>
R_MAIL == <<"r", "@", "x">>

ServerDicts ==
    {[name |-> S1, host |-> HOST],
     [name |-> S2, host |-> HOST, ports |-> [int |-> SMTPS_PORT], user |-> "user",
      password |-> "cGFzcw==", password_encoding |-> <<"B", "A", "S", "E", "6", "4">>],
     [name |-> S1, host |-> HOST, password_encoding |-> <<"h", "e", "x">>],
     [name |-> <<"S", "3">>, host |-> HOST, ports |-> [list |-> <<>>]],
     [host |-> HOST]}

IdentityDicts ==
    {[name |-> <<"W">>, email |-> W_MAIL, display_name |-> <<"N">>,
      smtp_server |-> <<"s", "1">>],
     [name |-> <<"H">>, email |-> H_MAIL, smtp_server |-> S2,
      reply_to |-> <<H_MAIL, R_MAIL>>],
     [name |-> <<"L">>, email |-> W_MAIL, smtp_server |-> <<"S", "9">>],
     [name |-> <<"Q">>, smtp_server |-> S1]}

DefaultTables ==
    {<<>>, [default_identity |-> <<"h">>], [default_identity |-> <<"Z">>],
     [default_identity |-> <<>>]}

ConfigFiles ==
    {[exists |-> FALSE, valid |-> TRUE, data |-> <<>>],
     [exists |-> TRUE, valid |-> FALSE, data |-> <<>>]}
    \cup {[exists |-> TRUE, valid |-> TRUE,
           data |-> [defaults |-> d, smtp_servers |-> s, identities |-> i]] :
            d \in DefaultTables, s \in SeqsUpTo(ServerDicts, MaxEntries),
            i \in SeqsUpTo(IdentityDicts, MaxEntries)}

\* the credential sources of a directly constructed SmtpServer
SecretSources ==
    CredentialSources
    \cup {[password |-> None, password_cmd |-> "pass show smtp",
           password_encoding |-> ENC_PLAIN],
          [password |-> "", password_cmd |-> "", password_encoding |-> ENC_BASE64],
          [password |-> "%%%", password_cmd |-> None, password_encoding |-> ENC_BASE64]}

\* registries built with the constructors, the way create_empty_config and
\* the callers of Config(...) build them
DirectConfigs ==
    {Config(ParseDefaults(d),
            <<[name |-> S1, host |-> HOST, ports |-> <<DEFAULT_SMTP_PORT>>,
               user |-> "user", password |-> c.password,
               password_cmd |-> c.password_cmd,
               password_encoding |-> c.password_encoding, use_tls |-> TRUE]>>,
            ids) :
        d \in DefaultTables, c \in SecretSources,
        ids \in SeqsUpTo({Identity(<<"W">>, W_MAIL, <<"N">>, S1, <<>>),
                          Identity(<<"w">>, W_MAIL, <<>>, S1, <<>>),
                          Identity(<<"H">>, H_MAIL, <<>>, S1, <<H_MAIL, R_MAIL>>)},
                         MaxEntries)}

ConfigInit ==
    /\ kpc = "start"
    /\ toml \in ConfigFiles \cup {[direct |-> c] : c \in DirectConfigs \cup {create_empty_config}}
    /\ config = Null
    /\ answer = Null

configRest == <<sendVars, composeVars, runVars, templateVars, validateVars>>

\* load_config(path)
LoadConfig ==
    /\ kpc = "start"
    /\ "exists" \in DOMAIN toml
    /\ config' = [origin |-> "load_config"] @@ load_config(toml)
    /\ kpc' = IF load_config(toml).exc = None THEN "loaded" ELSE "failed"
    /\ UNCHANGED <<toml, answer>>
    /\ UNCHANGED configRest

\* Config(defaults=..., smtp_servers=..., identities=...), no file read
Construct ==
    /\ kpc = "start"
    /\ "direct" \in DOMAIN toml
    /\ config' = [origin |-> "Config"] @@ Ok(toml.direct)
    /\ kpc' = "loaded"
    /\ UNCHANGED <<toml, answer>>
    /\ UNCHANGED configRest

\* config.get_default_identity()
LookupDefault ==
    /\ kpc = "loaded"
    /\ answer' = [op |-> "get_default_identity",
                  value |-> get_default_identity(config.value)]
    /\ kpc' = "answered"
    /\ UNCHANGED <<toml, config>>
    /\ UNCHANGED configRest

\* config.get_smtp_for_identity(identity) of one of the identities
LookupServer ==
    /\ kpc = "loaded"
    /\ \E i \in 1..Len(config.value.identities) :
         answer' = [op |-> "get_smtp_for_identity", arg |-> i,
                    value |-> get_smtp_for_identity(config.value,
                                                    config.value.identities[i])]
    /\ kpc' = "answered"
    /\ UNCHANGED <<toml, config>>
    /\ UNCHANGED configRest

\* the names and addresses looked up: other case, unknown, a proper prefix
LookupKeys == {<<"s", "1">>, <<"w">>, <<"W", "@", "X">>, <<"Z">>, <<"s">>}

\* config.get_smtp_server(name)
GetSmtpServer ==
    /\ kpc = "loaded"
    /\ \E name \in LookupKeys :
         answer' = [op |-> "get_smtp_server", arg |-> name,
                    value |-> get_smtp_server(config.value, name)]
    /\ kpc' = "answered"
    /\ UNCHANGED <<toml, config>>
    /\ UNCHANGED configRest

\* config.get_identity(name)
GetIdentity ==
    /\ kpc = "loaded"
    /\ \E name \in LookupKeys :
         answer' = [op |-> "get_identity", arg |-> name,
                    value |-> get_identity(config.value, name)]
    /\ kpc' = "answered"
    /\ UNCHANGED <<toml, config>>
    /\ UNCHANGED configRest

\* config.get_identity_by_email(email)
GetIdentityByEmail ==
    /\ kpc = "loaded"
    /\ \E email \in LookupKeys :
         answer' = [op |-> "get_identity_by_email", arg |-> email,
                    value |-> get_identity_by_email(config.value, email)]
    /\ kpc' = "answered"
    /\ UNCHANGED <<toml, config>>
    /\ UNCHANGED configRest

\* server.get_password() of one of the servers, with what the password
\* command does when it is run
ResolveSecret ==
    /\ kpc = "loaded"
    /\ \E i \in 1..Len(config.value.smtp_servers), cmd \in CmdOutcomes :
         answer' = [op |-> "get_password", arg |-> i, cmd |-> cmd,
                    value |-> get_password(config.value.smtp_servers[i], cmd)]
    /\ kpc' = "answered"
    /\ UNCHANGED <<toml, config>>
    /\ UNCHANGED configRest

\* ------------------------------------------------------------------------
\* generate_template (composer.py:56-136)
\* ------------------------------------------------------------------------
NL == <<"\n">>
FROM_ == <<"F", "r", "o", "m", ":", " ">>
REPLY_TO_ == <<"R", "e", "p", "l", "y", "-", "T", "o", ":", " ">>
TO_ == <<"T", "o", ":", " ">>
CC_ == <<"C", "c", ":", " ">>
BCC_ == <<"B", "c", "c", ":", " ">>
SUBJECT_ == <<"S", "u", "b", "j", "e", "c", "t", ":", " ">>

\* HEADER_INSTRUCTIONS (composer.py:21-27) and the frames of the two menus:
\* comment lines, of which the model keeps the first characters
HEADER_INSTRUCTIONS ==
    <<<<"#", " ", "T">>, <<"#", " ", "L">>, <<"#", " ", "E">>, <<"#">>,
      <<"#", " ", "F", "R", "O", "M", ":">>, <<"#", " ", "D", ":">>,
      <<"#", " ", "R", ":">>>>
FRAME_TOP == <<"#", " ", "+", "-", "-", "-">>
FRAME_BOTTOM == <<"#", " ", "+", "-">>

\* "x or default" on an optional str
OrElse(s, default) == IF TruthyStr(s) THEN s ELSE default

\* the selected identity (composer.py:86-93)
SelectedIdentity(cfg, identity_name) ==
    LET named == IF TruthyStr(identity_name) THEN get_identity(cfg, identity_name)
                 ELSE Null
    IN  IF named = Null /\ cfg.identities # <<>> THEN get_default_identity(cfg)
        ELSE named

\* mutant: the friendly name appended after a single blank
FromLine_m(identity, selected, custom) ==
    LET is_selected == identity = selected
        display_name == IF is_selected /\ TruthyStr(custom) THEN custom
                        ELSE identity.display_name
        from_value == IF display_name # <<>>
                      THEN display_name \o <<" ", "<">> \o identity.email \o <<">">>
                      ELSE identity.email
    IN  (IF is_selected THEN <<>> ELSE <<"#">>) \o FROM_ \o from_value
            \o <<" ", "#", " ", "[">> \o identity.name \o <<"]">>

\* one line of the FROM menu (composer.py:97-106)
FromLine(identity, selected, custom) ==
    LET is_selected == identity = selected
        display_name == IF is_selected /\ TruthyStr(custom) THEN custom
                        ELSE identity.display_name
        from_value == IF display_name # <<>>
                      THEN display_name \o <<" ", "<">> \o identity.email \o <<">">>
                      ELSE identity.email
    IN  (IF is_selected THEN <<>> ELSE <<"#">>) \o FROM_ \o from_value
            \o <<" ", " ", "#", " ", "[">> \o identity.name \o <<"]">>

\* the REPLY-TO menu (composer.py:110-120)
ReplyToMenu(selected, reply_to) ==
    IF selected = Null \/ selected.reply_to = <<>> THEN <<>>
    ELSE LET effective_reply_to == OrElse(reply_to, selected.reply_to[1])
         IN  <<FRAME_TOP>>
             \o [i \in 1..Len(selected.reply_to) |->
                   (IF selected.reply_to[i] = effective_reply_to THEN <<>> ELSE <<"#">>)
                       \o REPLY_TO_ \o selected.reply_to[i]]
             \o <<FRAME_BOTTOM, <<>>>>

\* the list of lines generate_template joins (composer.py:83-134)
TemplateLines(f) ==
    LET identities == f.config.identities
        selected == SelectedIdentity(f.config, f.identity_name)
    IN  HEADER_INSTRUCTIONS \o <<<<>>, FRAME_TOP>>
        \o [i \in 1..Len(identities) |->
              FromLine(identities[i], selected, f.custom_display_name)]
        \o <<FRAME_BOTTOM, <<>>>>
        \o ReplyToMenu(selected, f.reply_to)
        \o <<TO_ \o Join(f.recipients, <<",", " ">>),
             CC_ \o Join(f.cc, <<",", " ">>),
             BCC_ \o Join(f.bcc, <<",", " ">>),
             SUBJECT_ \o OrElse(f.subject, <<>>),
             <<>>, TEMPLATE_SEPARATOR, <<>>,
             OrElse(f.body, <<>>)>>

\* the text generate_template returns ("\n".join(lines), composer.py:136)
generate_template(f) == Join(TemplateLines(f), NL)

\* content.split("\n") (composer.py:151)
SplitLines(text) == Split(text, NL)

\* the identities of the sample registries
IDENT_W == Identity(<<"W">>, W_MAIL, <<"N">>, S1, <<>>)
IDENT_H == Identity(<<"H">>, H_MAIL, <<>>, S1, <<H_MAIL, R_MAIL>>)
IDENT_D == Identity(<<"D">>, <<"d", "@", "x">>, <<"A", "<", "B">>, S1, <<>>)

\* sample addresses: two plain ones and one with a display name
ADDR_A == <<"a", "@", "x">>
ADDR_B == <<"b", "@", "x">>
ADDR_DJ == <<"\"", "D", ",", " ", "J", "\"", " ", "<", "j", "@", "x", ">">>

\* the recipients, subject and body generate_template is called with
ContentSamples ==
    {[recipients |-> <<>>, cc |-> <<>>, bcc |-> <<>>, subject |-> NoneStr,
      body |-> NoneStr],
     [recipients |-> <<ADDR_A, ADDR_B>>, cc |-> <<ADDR_B>>, bcc |-> <<>>,
      subject |-> <<"s">>, body |-> <<"h", "i">>],
     [recipients |-> <<ADDR_A>>, cc |-> <<>>, bcc |-> <<ADDR_B, ADDR_A>>,
      subject |-> <<"R", "e", " ", "s">>, body |-> <<" ", "h", "\n", "i", "\n">>],
     [recipients |-> <<ADDR_DJ>>, cc |-> <<>>, bcc |-> <<>>,
      subject |-> <<"s">>, body |-> <<"h", "i">>]}

FieldSets ==
    {[config |-> Config(ParseDefaults(d), <<>>, ids),
      identity_name |-> n, reply_to |-> r, custom_display_name |-> c,
      recipients |-> k.recipients, cc |-> k.cc, bcc |-> k.bcc,
      subject |-> k.subject, body |-> k.body] :
        d \in {<<>>, [default_identity |-> <<"h">>]},
        ids \in SeqsUpTo({IDENT_W, IDENT_H, IDENT_D}, MaxEntries),
        n \in {NoneStr, <<"w">>, <<"H">>, <<"D">>, <<"Z">>},
        r \in {NoneStr, R_MAIL, <<"o", "@", "x">>},
        c \in {NoneStr, <<"C">>},
        k \in ContentSamples}

TemplateInit ==
    /\ tpc = "start"
    /\ fields \in FieldSets
    /\ generated = <<>>
    /\ parsed = Null

templateRest == <<sendVars, composeVars, runVars, validateVars, configVars>>

\* template = generate_template(config, ...)
GenerateTemplate ==
    /\ tpc = "start"
    /\ generated' = generate_template(fields)
    /\ tpc' = "generated"
    /\ UNCHANGED <<fields, parsed>>
    /\ UNCHANGED templateRest

\* the header lines an editor may leave above the separator: keys repeated,
\* in another case, with and without a value
HeaderLineSamples ==
    {SUBJECT_,
     SUBJECT_ \o <<"x">>,
     <<"S", "U", "B", "J", "E", "C", "T", ":", "y">>,
     TO_,
     TO_ \o <<"a", ",", "b">>,
     COMMENT_MARK}

\* the edited texts: header lines, the separator, no body
EditedTexts ==
    {Join(h \o <<TEMPLATE_SEPARATOR>>, NL) : h \in SeqsUpTo(HeaderLineSamples, MaxLines)}

\* an edited text is about to be parsed
ParseInit ==
    /\ tpc = "generated"
    /\ fields = Null
    /\ generated \in EditedTexts
    /\ parsed = Null

\* parse_template(content)
ParseTemplate ==
    /\ tpc = "generated"
    /\ parsed' = parse_template(SplitLines(generated))
    /\ tpc' = "parsed"
    /\ UNCHANGED <<fields, generated>>
    /\ UNCHANGED templateRest

\* ------------------------------------------------------------------------
\* EmailData.validate (message.py:34-58)
\* ------------------------------------------------------------------------
MaxAttachments == 2

AttachmentPaths == {"notes.txt", "photos"}

\* EmailData.all_recipients (message.py:34-36)
all_recipients(d) == d.to \o d.cc \o d.bcc

\* the error of one attachment, if any (message.py:52-56); fs tells what a
\* path is: a file, a directory or missing
AttachmentErrors(path, fs) ==
    IF fs[path] = "missing" THEN <<<<"Attachment not found", path>>>>
    ELSE IF fs[path] # "file" THEN <<<<"Attachment is not a file", path>>>>
    ELSE <<>>

RECURSIVE AllAttachmentErrors(_, _)
AllAttachmentErrors(attachments, fs) ==
    IF attachments = <<>> THEN <<>>
    ELSE AttachmentErrors(Head(attachments), fs)
             \o AllAttachmentErrors(Tail(attachments), fs)

\* EmailData.validate (message.py:42-58)
validate(d, fs) ==
    (IF d.to = <<>> THEN <<<<"No recipients specified">>>> ELSE <<>>)
    \o (IF d.from_addr = <<>> THEN <<<<"No from address specified">>>> ELSE <<>>)
    \o AllAttachmentErrors(d.attachments, fs)

ValidateInit ==
    /\ vpc = "start"
    /\ email_data \in [to : {<<>>, <<ADDR_A>>}, cc : {<<>>, <<ADDR_B>>},
                       bcc : {<<>>, <<ADDR_B>>}, from_addr : {<<>>, W_MAIL},
                       attachments : SeqsUpTo(AttachmentPaths, MaxAttachments)]
    /\ paths \in [AttachmentPaths -> {"file", "dir", "missing"}]
    /\ errors = <<>>

\* errors = email_data.validate()
Validate ==
    /\ vpc = "start"
    /\ errors' = validate(email_data, paths)
    /\ vpc' = "validated"
    /\ UNCHANGED <<email_data, paths>>
    /\ UNCHANGED <<sendVars, composeVars, runVars, templateVars, configVars>>

\* ------------------------------------------------------------------------
\* main and _run (__main__.py:18-224)
\* ------------------------------------------------------------------------
O_MAIL == <<"o", "@", "x">>

\* the registry of the sample runs: W sends through S1, H through S2
RunRegistry ==
    Config(ParseDefaults(<<>>),
           <<ParseSmtpServer([name |-> S1, host |-> HOST]).value,
             ParseSmtpServer([name |-> S2, host |-> HOST]).value>>,
           <<IDENT_W, Identity(<<"H">>, H_MAIL, <<>>, S2, <<>>)>>)

\* the command line, what load_config answers and whether stdin is a terminal
RunArgs ==
    [loaded : {Ok(RunRegistry), Err("not found"), Err("invalid TOML")},
     no_config : BOOLEAN, list_accounts : BOOLEAN,
     identity : {NoneStr, <<"h">>, <<"Z">>},
     from_addr : {NoneStr, W_MAIL, O_MAIL},
     interactive : {Null, [bool |-> FALSE]},
     recipients : {<<>>, <<ADDR_A>>},
     discard_empty : BOOLEAN, dry_run : BOOLEAN, skip_confirmation : BOOLEAN,
     tty : BOOLEAN]

\* what compose_interactively answers: a ComposerError, the cancelled
\* result, or what the user left in the template
ComposeAnswers ==
    {[exc |-> "ComposerError"], Ok(CancelledEmail)}
    \cup {Ok(ComposedEmail(to, <<>>, <<>>, from, NoneStr, NoneStr, <<>>, body, FALSE)) :
            to \in {<<>>, <<ADDR_A>>}, from \in {<<>>, W_MAIL, H_MAIL, O_MAIL},
            body \in {<<>>, <<"t">>}}

\* EmailData(...) as _run fills it (__main__.py:141-167)
EmailData(to, cc, bcc, from_addr, body) ==
    [to |-> to, cc |-> cc, bcc |-> bcc, from_addr |-> from_addr, body |-> body,
     attachments |-> <<>>]

\* EmailData.is_empty (message.py:38-40)
is_empty(d) == Strip(d.body) = <<>>

\* "return code", and an exception on its way to main's handler, which
\* returns 1 for it (__main__.py:36-43)
RunExit(code, calls) ==
    /\ rpc' = "exited"
    /\ exit_code' = code
    /\ rlog' = rlog \o calls
    /\ UNCHANGED <<rargs, locals>>

\* _run goes on after its calls, with these locals
RunGoto(next, calls, new) ==
    /\ rpc' = next
    /\ locals' = new
    /\ rlog' = rlog \o calls
    /\ UNCHANGED <<rargs, exit_code>>

RunInit ==
    /\ rpc = "start"
    /\ rargs \in RunArgs
    /\ locals = Null
    /\ rlog = <<>>
    /\ exit_code = None

runRest == <<sendVars, composeVars, templateVars, validateVars, configVars>>

\* configuration, --list-accounts, effective settings, identity and server
\* (__main__.py:54-110)
RunStart ==
    /\ rpc = "start"
    /\ LET a == rargs
           loaded ==
               IF a.no_config THEN Ok(create_empty_config)
               ELSE IF /\ a.loaded.exc # None
                       /\ a.loaded.why = "not found"
                       /\ TruthyStr(a.from_addr)
                    THEN Ok(create_empty_config)
               ELSE a.loaded
           cfg == loaded.value
           identity ==
               IF TruthyStr(a.identity) THEN get_identity(cfg, a.identity)
               ELSE IF TruthyStr(a.from_addr) THEN get_identity_by_email(cfg, a.from_addr)
               ELSE IF cfg.identities # <<>> THEN get_default_identity(cfg)
               ELSE Null
           server == IF identity # Null THEN get_smtp_for_identity(cfg, identity)
                     ELSE Null
       IN  IF loaded.exc # None THEN RunExit(1, <<>>)
           ELSE IF a.list_accounts THEN RunExit(0, <<<<"_list_accounts">>>>)
           ELSE IF identity = Null /\ (TruthyStr(a.identity) \/ ~a.no_config)
                THEN RunExit(1, <<>>)
           ELSE IF identity # Null /\ server = Null THEN RunExit(1, <<>>)
           ELSE RunGoto("compose", <<>>,
                    [config |-> cfg, identity |-> identity, smtp_server |-> server,
                     interactive |-> IF a.interactive # Null THEN a.interactive.bool
                                     ELSE cfg.defaults.interactive,
                     skip_confirmation |->
                         a.skip_confirmation \/ cfg.defaults.skip_confirmation,
                     email_data |-> Null])
    /\ UNCHANGED runRest

\* mutant: a cancelled result is treated like any other
Cancels_m(c) == FALSE

\* "if composed.cancelled" (__main__.py:127)
Cancels(c) == c.cancelled

\* "identity_name=identity.name if identity else None" (__main__.py:119)
IdentityName == IF locals.identity # Null THEN locals.identity.name ELSE NoneStr

\* the interactive branch (__main__.py:113-151)
RunCompose ==
    /\ rpc = "compose"
    /\ locals.interactive /\ rargs.tty
    /\ \E r \in ComposeAnswers :
         IF r.exc # None
         THEN RunExit(1, <<<<"compose_interactively", "raised", IdentityName>>>>)
         ELSE IF Cancels(r.value)
         THEN RunExit(0, <<<<"compose_interactively", "cancelled", IdentityName>>>>)
         ELSE LET c == r.value
                  found == IF c.from_addr # <<>>
                           THEN get_identity_by_email(locals.config, c.from_addr)
                           ELSE Null
              IN  RunGoto("check",
                      <<<<"compose_interactively",
                          IF c.cancelled THEN "cancelled" ELSE "composed",
                          IdentityName>>>>,
                      [locals EXCEPT
                         !.identity = IF found # Null THEN found ELSE @,
                         !.smtp_server =
                             IF found # Null
                             THEN get_smtp_for_identity(locals.config, found) ELSE @,
                         !.email_data =
                             EmailData(c.to, c.cc, c.bcc, c.from_addr, c.body)])
    /\ UNCHANGED runRest

\* the non-interactive branch (__main__.py:152-167)
RunReadBody ==
    /\ rpc = "compose"
    /\ ~(locals.interactive /\ rargs.tty)
    /\ \E body \in {<<>>, <<" ">>, <<"t">>} :
         RunGoto("check", <<<<"read_body_from_stdin">>>>,
             [locals EXCEPT !.email_data =
                 EmailData(rargs.recipients, <<>>, <<>>,
                           IF TruthyStr(rargs.from_addr) THEN rargs.from_addr
                           ELSE IF locals.identity # Null THEN locals.identity.email
                           ELSE <<>>,
                           body)])
    /\ UNCHANGED runRest

\* empty body, validation, dry run (__main__.py:169-198)
RunCheck ==
    /\ rpc = "check"
    /\ LET d == locals.email_data
           validated == <<<<"validate">>>>
       IN  IF is_empty(d) /\ rargs.discard_empty THEN RunExit(0, <<>>)
           ELSE IF validate(d, <<>>) # <<>> THEN RunExit(1, validated)
           ELSE IF rargs.dry_run THEN RunExit(0, validated)
           ELSE IF ~locals.skip_confirmation /\ rargs.tty
                THEN RunGoto("confirm", validated, locals)
           ELSE RunGoto("send", validated, locals)
    /\ UNCHANGED runRest

\* mutant: the answer to the prompt is ignored
Declined_m(accepted) == FALSE

\* "if not confirm_send(email_data)" (__main__.py:196)
Declined(accepted) == ~accepted

\* confirm_send and its answer (__main__.py:195-198)
RunConfirm ==
    /\ rpc = "confirm"
    /\ \E accepted \in BOOLEAN :
         LET asked == <<<<"confirm_send", IF accepted THEN "yes" ELSE "no">>>>
         IN  IF Declined(accepted) THEN RunExit(0, asked)
             ELSE RunGoto("send", asked, locals)
    /\ UNCHANGED runRest

\* build_message, send_email and the exit code (__main__.py:200-224)
RunSend ==
    /\ rpc = "send"
    /\ IF locals.smtp_server = Null THEN RunExit(1, <<>>)
       ELSE \E outcome \in {"success", "failure", "MailerError"} :
              RunExit(IF outcome = "success" THEN 0 ELSE 1,
                      <<<<"build_message">>,
                        <<"send_email", locals.smtp_server.name,
                          locals.email_data.from_addr>>>>)
    /\ UNCHANGED runRest

\* ------------------------------------------------------------------------
\* test_connection (mailer.py:189-235)
\* ------------------------------------------------------------------------
\* what the network and the server do while one port is probed
ProbeEnvs == {env \in Envs({}) : env.fail \in {"none", "connect", "starttls", "login"}}

\* mutant: an error of quit is ignored, as _send_via_smtp does
QuitResult_m(env) == "return"

\* server.quit() inside the try block (mailer.py:218): its error is the
\* error of the probe
QuitResult(env) == IF env.quit = "ok" THEN "return" ELSE env.quit

\* the body of the try block for one port (mailer.py:203-218)
Probe(port, username, pw, use_tls, env) ==
    LET tls == port # SMTPS_PORT /\ use_tls
        s1 == <<"connect">>
        s2 == IF tls THEN Append(s1, "starttls") ELSE s1
        auth == ShouldLogin(username, pw)
        s3 == IF auth THEN Append(s2, "login") ELSE s2
    IN  IF StepOf(env, "connect") # "ok" THEN Cyc(s1, StepOf(env, "connect"), {}, pw)
        ELSE IF tls /\ StepOf(env, "starttls") # "ok"
             THEN Cyc(s2, StepOf(env, "starttls"), {}, pw)
        ELSE IF auth /\ StepOf(env, "login") # "ok"
             THEN Cyc(s3, StepOf(env, "login"), {}, pw)
        ELSE [Cyc(Append(s3, "quit"), QuitResult(env), {}, pw)
              EXCEPT !.quitErr = env.quit]

ProbeEntry(pos, c) == <<"probe", pos, c.port, c.steps, c.outcome>>

TestInit ==
    /\ pc = "test"
    /\ smtp_server \in Servers
    /\ retries = 0
    /\ msgFrom = None
    /\ recipients = {}
    /\ password = None
    /\ attempt = -1
    /\ attempts = 0
    /\ portIdx = 0
    /\ last_error = None
    /\ result = [kind |-> "running"]
    /\ log = <<>>
    /\ lastCycle = NoCycle

\* password = smtp_server.get_password() (mailer.py:199)
TestGetPassword ==
    /\ pc = "test"
    /\ \E cmd \in CmdOutcomes :
         LET r == get_password(smtp_server, cmd)
         IN  /\ log' = Append(log, PasswordEntry(r))
             /\ IF r.exc # None
                THEN /\ pc' = "raised"
                     /\ result' = [kind |-> "raised", exc |-> r.exc]
                     /\ UNCHANGED password
                ELSE /\ pc' = "test_port"
                     /\ password' = r.value
                     /\ UNCHANGED result
    /\ UNCHANGED <<smtp_server, retries, msgFrom, recipients, attempt, attempts,
                   portIdx, last_error, lastCycle>>
    /\ UNCHANGED <<composeVars, laterVars>>

\* one iteration of "for port in smtp_server.ports" (mailer.py:201-229)
TestPort ==
    /\ pc = "test_port"
    /\ portIdx < Len(smtp_server.ports)
    /\ \E env \in ProbeEnvs :
         LET port == smtp_server.ports[portIdx + 1]
             c == [Probe(port, smtp_server.user, password, smtp_server.use_tls, env)
                   EXCEPT !.port = port]
         IN  /\ portIdx' = portIdx + 1
             /\ lastCycle' = c
             /\ log' = Append(log, ProbeEntry(portIdx + 1, c))
             /\ IF c.outcome = "return"
                THEN /\ pc' = "returned"
                     /\ result' = [kind |-> "returned", success |-> TRUE,
                                   attempts |-> 1, smtp_response |-> None,
                                   error |-> None]
                ELSE UNCHANGED <<pc, result>>
    /\ UNCHANGED <<smtp_server, retries, msgFrom, recipients, password, attempt,
                   attempts, last_error>>
    /\ UNCHANGED <<composeVars, laterVars>>

\* the loop is exhausted: the failure result (mailer.py:231-235)
TestFailure ==
    /\ pc = "test_port"
    /\ portIdx = Len(smtp_server.ports)
    /\ pc' = "returned"
    /\ result' = [kind |-> "returned", success |-> FALSE, attempts |-> 1,
                  smtp_response |-> None, error |-> "Failed to connect"]
    /\ UNCHANGED <<smtp_server, retries, msgFrom, recipients, password, attempt,
                   attempts, portIdx, last_error, log, lastCycle>>
    /\ UNCHANGED <<composeVars, laterVars>>

\* ------------------------------------------------------------------------
\* Specifications
\* ------------------------------------------------------------------------
\* one send_email call
Init == SendInit /\ ComposeIdle /\ LaterIdle

Next ==
    \/ GetPassword
    \/ NextAttempt
    \/ TryPort
    \/ Backoff
    \/ NoBackoff
    \/ ReturnFailure

Spec == Init /\ [][Next]_vars

\* one editing session
InitCompose == ComposeInit /\ SendIdle /\ LaterIdle

NextCompose ==
    \/ CreateTempFile
    \/ StartEditor
    \/ EditorExit
    \/ CheckReturnCode
    \/ CheckModified
    \/ ReadAndParse
    \/ Cleanup

SpecCompose == InitCompose /\ [][NextCompose]_vars


\* one Config: loaded from a file or constructed, then asked
InitConfig ==
    /\ ConfigInit
    /\ SendIdle /\ ComposeIdle /\ RunIdle /\ TemplateIdle /\ ValidateIdle

NextConfig ==
    \/ LoadConfig
    \/ Construct
    \/ LookupDefault
    \/ LookupServer
    \/ GetSmtpServer
    \/ GetIdentity
    \/ GetIdentityByEmail
    \/ ResolveSecret

SpecConfig == InitConfig /\ [][NextConfig]_vars


\* one template: generated from a field set, then parsed back
InitTemplate ==
    /\ TemplateInit
    /\ SendIdle /\ ComposeIdle /\ RunIdle /\ ValidateIdle /\ ConfigIdle

NextTemplate ==
    \/ GenerateTemplate
    \/ ParseTemplate

SpecTemplate == InitTemplate /\ [][NextTemplate]_vars


\* one edited text, parsed
InitParse ==
    /\ ParseInit
    /\ SendIdle /\ ComposeIdle /\ RunIdle /\ ValidateIdle /\ ConfigIdle

NextParse == ParseTemplate

SpecParse == InitParse /\ [][NextParse]_vars

\* one EmailData, validated
InitValidate ==
    /\ ValidateInit
    /\ SendIdle /\ ComposeIdle /\ RunIdle /\ TemplateIdle /\ ConfigIdle

NextValidate == Validate

SpecValidate == InitValidate /\ [][NextValidate]_vars


\* one run of the program
InitRun ==
    /\ RunInit
    /\ SendIdle /\ ComposeIdle /\ TemplateIdle /\ ValidateIdle /\ ConfigIdle

NextRun ==
    \/ RunStart
    \/ RunCompose
    \/ RunReadBody
    \/ RunCheck
    \/ RunConfirm
    \/ RunSend

SpecRun == InitRun /\ [][NextRun]_vars


\* one call of test_connection
InitTest == TestInit /\ ComposeIdle /\ LaterIdle

NextTest ==
    \/ TestGetPassword
    \/ TestPort
    \/ TestFailure

SpecTest == InitTest /\ [][NextTest]_vars

\* ------------------------------------------------------------------------
\* Properties of send_email
\* ------------------------------------------------------------------------
IsCycle(e) == e[1] = "cycle"
IsWait(e) == e[1] = "wait"
Cycles == SelectSeq(log, IsCycle)
Waits == SelectSeq(log, IsWait)
NumPorts == Len(smtp_server.ports)
Ended == pc \in {"returned", "raised"}

\* the secret was resolved and every delivery cycle so far failed with a
\* transport or protocol error
AllCyclesFailed ==
    /\ log # <<>>
    /\ log[1][3] = "return"
    /\ \A i \in 1..Len(Cycles) : Cycles[i][4] = "caught"

RECURSIVE SumWaits(_)
SumWaits(w) == IF w = <<>> THEN 0 ELSE Head(w)[3] + SumWaits(Tail(w))

\* C1: when every delivery cycle fails with a transport or protocol error, a
\* call with retries = N on a server with P >= 1 ports never performs more
\* than (N+1)*P cycles, is never stuck before it has ended, and ends by
\* returning success = false with attempts = N+1 after exactly N+1 outer
\* attempts and (N+1)*P cycles.
C1_AllFail ==
    (AllCyclesFailed /\ NumPorts >= 1) =>
        /\ Len(Cycles) <= (retries + 1) * NumPorts
        /\ Ended \/ ENABLED Next
        /\ Ended =>
             /\ result.kind = "returned"
             /\ result.success = FALSE
             /\ result.attempts = retries + 1
             /\ Len(Cycles) = (retries + 1) * NumPorts
             /\ {Cycles[i][2] : i \in 1..Len(Cycles)} = 0..retries

\* the call with retries = 2 and two ports has ended after six failed cycles
C1_Witness ==
    /\ Ended /\ AllCyclesFailed
    /\ retries = 2 /\ NumPorts = 2 /\ Len(Cycles) = 6
    /\ result.attempts = 3

\* C2: the first delivery cycle that succeeds ends the call: send_email
\* returns success = true with the acknowledgment, that cycle is the last
\* entry of the history (no further cycle, no further wait), and attempts is
\* the 1-based number of the outer attempt of that cycle, whatever its port.
C2_FirstSuccessEnds ==
    /\ lastCycle.outcome = "return" =>
         /\ pc = "returned"
         /\ result.kind = "returned"
         /\ result.success = TRUE
         /\ result.smtp_response # None
         /\ log[Len(log)][1] = "cycle"
         /\ log[Len(log)][4] = "return"
         /\ result.attempts = log[Len(log)][2] + 1
         /\ \A i \in 1..(Len(log) - 1) : log[i][1] = "cycle" => log[i][4] = "caught"
    /\ (result.kind = "returned" /\ result.success) => lastCycle.outcome = "return"

\* a success on the second port of the first outer attempt, reported as one
\* attempt
C2_Witness ==
    /\ pc = "returned" /\ result.success
    /\ log[Len(log)] = <<"cycle", 0, 2, "return">>
    /\ result.attempts = 1

\* C3: a delivery cycle in which the server refuses some but not all
\* recipients is a failed, retryable cycle: send_email records the failure
\* and goes on with the next port or outer attempt, it does not abort.
C3_RefusalIsRetried ==
    (lastCycle.refused # {} /\ lastCycle.outcome # "return") =>
        /\ pc = "for_port"
        /\ last_error # None
        /\ result.kind # "raised"

\* C4: a SendResult with success = true comes from a cycle that transmitted
\* the message and in which the server refused no recipient.
C4_NoPartialSuccess ==
    (result.kind = "returned" /\ result.success) =>
        /\ lastCycle.outcome = "return"
        /\ \E i \in 1..Len(lastCycle.steps) : lastCycle.steps[i] = "sendmail"
        /\ recipients \ lastCycle.refused = recipients

\* a success with two recipients after an earlier failed cycle
C4_Witness ==
    /\ result.kind = "returned" /\ result.success
    /\ Cardinality(recipients) = 2
    /\ Len(Cycles) >= 2

\* C5: every wait of outer attempt k follows directly on the failed cycles of
\* all ports of attempt k, happens only when k < retries, and is followed by
\* no cycle of attempt k or earlier; so there is no wait between two ports of
\* one attempt, none after the final attempt and none before the first cycle.
C5_BackoffPlacement ==
    \A i \in 1..Len(log) :
        IsWait(log[i]) =>
            LET k == log[i][2]
            IN  /\ k < retries
                /\ i - NumPorts >= 2
                /\ \A p \in 1..NumPorts :
                     log[i - NumPorts + p - 1] = <<"cycle", k, p, "caught">>
                /\ \A j \in (i + 1)..Len(log) : IsCycle(log[j]) => log[j][2] > k

\* a wait after both ports of an attempt failed, followed by a further cycle
C5_Witness ==
    /\ NumPorts = 2
    /\ \E i \in 1..Len(log) : IsWait(log[i]) /\ i < Len(log) /\ IsCycle(log[i + 1])

\* C6: the wait after outer attempt k lasts 2^k, and when every cycle of a call
\* with retries = N failed the waits of the call add up to 2^N - 1 (0 for
\* N = 0).
C6_BackoffDurations ==
    /\ \A i \in 1..Len(Waits) : Waits[i][3] = 2 ^ Waits[i][2]
    /\ (Ended /\ AllCyclesFailed) =>
         /\ Len(Waits) = retries
         /\ \A i \in 1..Len(Waits) : Waits[i][2] = i - 1
         /\ SumWaits(Waits) = 2 ^ retries - 1

\* a call with retries = 2 has ended in failure after waits of 1 and 2
C6_Witness ==
    /\ Ended /\ AllCyclesFailed
    /\ retries = 2
    /\ Waits = <<WaitEntry(0, 1), WaitEntry(1, 2)>>

\* C7: the cycles of a call happen in lexicographic (outer attempt, port
\* position) order, each position once per attempt, on the port the server's
\* list has at that position, and a cycle is followed by another only if it
\* failed.
C7_CycleOrder ==
    /\ \A j \in 1..Len(Cycles) :
         /\ NumPorts >= 1
         /\ Cycles[j][2] = (j - 1) \div NumPorts
         /\ Cycles[j][3] = ((j - 1) % NumPorts) + 1
         /\ j < Len(Cycles) => Cycles[j][4] = "caught"
    /\ lastCycle # NoCycle =>
         lastCycle.port = smtp_server.ports[Cycles[Len(Cycles)][3]]

\* the second attempt has started on a server with two different ports
C7_Witness ==
    /\ smtp_server.ports = <<DEFAULT_SMTP_PORT, SMTPS_PORT>>
    /\ Len(Cycles) = 4
    /\ lastCycle.port = SMTPS_PORT

\* C8: the secret is resolved exactly once per call, as the first thing the
\* call does; every cycle uses the value that was resolved; and a
\* configuration error of the resolution ends the call with that error before
\* any cycle or wait.
C8_SecretOnce ==
    /\ pc = "start" <=> log = <<>>
    /\ \A i \in 1..Len(log) : (log[i][1] = "get_password") <=> (i = 1)
    /\ lastCycle # NoCycle => lastCycle.pwUsed = log[1][2]
    /\ (log # <<>> /\ log[1][3] = "ConfigError") =>
         /\ pc = "raised"
         /\ result = [kind |-> "raised", exc |-> "ConfigError"]
         /\ Len(log) = 1

\* the resolution failed on a server with ports and retries left
C8_Witness ==
    /\ pc = "raised" /\ result.exc = "ConfigError"
    /\ retries = 2 /\ NumPorts = 2

\* ------------------------------------------------------------------------
\* Properties of compose_interactively
\* ------------------------------------------------------------------------
SessionPaths ==
    {<<"NotStarted", "EditorRunning", "EditorFailed">>,
     <<"NotStarted", "EditorRunning", "Unmodified">>,
     <<"NotStarted", "EditorRunning", "Modified", "Parsed">>,
     <<"NotStarted", "EditorRunning", "Modified", "ParseFailed">>}

IsPrefix(s, t) == Len(s) <= Len(t) /\ SubSeq(t, 1, Len(s)) = s

Did(op) == \E i \in 1..Len(ops) : ops[i] = op

\* C9: an editing session runs NotStarted -> EditorRunning -> {Unmodified,
\* Modified -> Parsed | ParseFailed} and ends in the one outcome the exit code
\* and the modification time decide: a non-zero exit code raises the editor
\* error without a second stat, a read or a parse of the file; exit code 0
\* with a changed modification time reads the file back and parses it, and a
\* parse failure leaves as the missing-separator error, not as a cancelled or
\* empty result.
C9_SessionOutcome ==
    /\ \E path \in SessionPaths : IsPrefix(session, path)
    /\ cpc = "done" =>
         /\ session \in SessionPaths
         /\ returncode # 0 =>
              /\ session[3] = "EditorFailed"
              /\ composed = [kind |-> "raised", exc |-> "ComposerError",
                             why |-> "editor exit code"]
              /\ ops = <<"create", "stat", "unlink">>
         /\ (returncode = 0 /\ file.mtime # mtime_before) =>
              /\ session[3] = "Modified"
              /\ ops = <<"create", "stat", "stat", "read_text", "parse_template",
                         "unlink">>
              /\ \/ /\ session[4] = "Parsed"
                    /\ SeparatorIdx(file.content) # 0
                    /\ composed.kind = "returned"
                    /\ composed.value = parse_template(file.content).value
                    /\ composed.value.cancelled = FALSE
                 \/ /\ session[4] = "ParseFailed"
                    /\ SeparatorIdx(file.content) = 0
                    /\ composed = [kind |-> "raised", exc |-> "ComposerError",
                                   why |-> "missing separator"]
         /\ (returncode = 0 /\ file.mtime = mtime_before) =>
              /\ session[3] = "Unmodified"
              /\ composed.kind = "returned"

\* the editor exited with 0 and left a changed file without a separator: the
\* session ended with the parse error
C9_Witness ==
    /\ cpc = "done"
    /\ returncode = 0
    /\ file.content = <<LINE_TO, LINE_TEXT>>
    /\ session = <<"NotStarted", "EditorRunning", "Modified", "ParseFailed">>
    /\ composed.kind = "raised"

Count(op) == Cardinality({i \in 1..Len(ops) : ops[i] = op})

SessionEnds == {"Parsed", "ParseFailed", "Unmodified", "EditorFailed"}

\* C11 as stated: when compose_interactively is left, on whatever exit path,
\* the temporary file no longer exists.
C11_FileGoneOnExit ==
    cpc = "done" => ~file.exists

\* C11, amended: on every exit path (parsed result, cancellation, editor
\* failure, parse failure) the removal of the temporary file is attempted
\* exactly once, as the last operation on it and after the outcome was
\* decided; the file exists until then; and whether the removal removed the
\* file or failed, what leaves compose_interactively is the outcome of the
\* session, never an error of the removal. The file is gone on exit when the
\* removal succeeded, and only then.
C11_RemovalAttempted ==
    /\ cpc \notin {"idle", "NotStarted", "done"} => (file.exists /\ Count("unlink") = 0)
    /\ cpc = "done" =>
         /\ session[Len(session)] \in SessionEnds
         /\ Count("unlink") = 1
         /\ ops[Len(ops)] = "unlink"
         /\ composed = pending
         /\ composed.kind \in {"returned", "raised"}
         /\ composed.kind = "raised" => composed.exc = "ComposerError"
         /\ (session[Len(session)] \in {"Parsed", "Unmodified"}) <=>
              (composed.kind = "returned")

\* the removal failed after a successful parse: the file is still there and the
\* parsed result is returned
C11_Witness ==
    /\ cpc = "done"
    /\ file.exists
    /\ session[Len(session)] = "Parsed"
    /\ composed.kind = "returned"
    /\ ~composed.value.cancelled


\* ------------------------------------------------------------------------
\* Properties of the configuration
\* ------------------------------------------------------------------------
Loaded == kpc # "start" /\ config.origin = "load_config"

Folded(entries, key) ==
    {LowerStr(entries[i][key]) : i \in {j \in 1..Len(entries) : key \in DOMAIN entries[j]}}

\* C18: load_config fails with a configuration error whenever the file has no
\* SMTP servers, no identities, an identity whose smtp_server names no server
\* of the file, a default identity that names no identity of the file, or a
\* password_encoding other than plain and base64 (names and encodings compared
\* without regard to case); and on a registry that was loaded
\* get_smtp_for_identity returns a server for every identity and
\* get_default_identity returns one of the identities.
C18_LoadRejects ==
    Loaded =>
        LET sd == Field(toml.data, "smtp_servers", <<>>)
            idd == Field(toml.data, "identities", <<>>)
            def == Field(Field(toml.data, "defaults", <<>>), "default_identity", NoneStr)
            flawed ==
                \/ sd = <<>>
                \/ idd = <<>>
                \/ Folded(idd, "smtp_server") \ Folded(sd, "name") # {}
                \/ def \notin {NoneStr, <<>>} /\ LowerStr(def) \notin Folded(idd, "name")
                \/ Folded(sd, "password_encoding") \ {ENC_PLAIN, ENC_BASE64} # {}
        IN  /\ flawed => (kpc = "failed" /\ config.exc = "ConfigError")
            /\ kpc = "failed" <=> config.exc = "ConfigError"
            /\ config.exc = None =>
                 /\ Len(config.value.smtp_servers) = Len(sd)
                 /\ Len(config.value.identities) = Len(idd)
                 /\ \A i \in 1..Len(idd) :
                      get_smtp_for_identity(config.value, config.value.identities[i])
                          \in {config.value.smtp_servers[j] : j \in 1..Len(sd)}
            /\ (kpc = "answered" /\ answer.op = "get_smtp_for_identity") =>
                 \E j \in 1..Len(sd) : answer.value = config.value.smtp_servers[j]
            /\ (kpc = "answered" /\ answer.op = "get_default_identity") =>
                 \E j \in 1..Len(idd) : answer.value = config.value.identities[j]

\* a file whose servers and identities are in order but whose default identity
\* names no identity was rejected
C18_Witness ==
    /\ Loaded
    /\ kpc = "failed"
    /\ {"smtp_servers", "identities", "defaults"} \subseteq DOMAIN toml.data
    /\ Len(toml.data.smtp_servers) = 2
    /\ Len(toml.data.identities) = 2
    /\ toml.data.defaults = [default_identity |-> <<"Z">>]
    /\ config.why = "unknown default identity"


\* the well-formed base64 texts among the sample secrets, with what they encode
WellFormed == [s \in {"c2VjcmV0MTIz", "cGFzcw=="} |->
                  IF s = "cGFzcw==" THEN "pass" ELSE "secret123"]

\* C19: get_password is a short-circuit priority chain. With a command source
\* configured the output of the command is the secret, whatever the static
\* value, and a non-zero exit or a timeout is a configuration error; otherwise
\* a configured static value is returned as it is for plain and decoded for
\* base64, malformed base64 being a configuration error; with neither source
\* the result is no secret.
C19_PriorityChain ==
    (kpc = "answered" /\ answer.op = "get_password") =>
        LET server == config.value.smtp_servers[answer.arg]
            r == answer.value
        IN  IF server.password_cmd \notin {None, ""}
            THEN IF answer.cmd.kind = "exit0"
                 THEN r.exc = None /\ r.value = answer.cmd.stdout
                 ELSE r.exc = "ConfigError"
            ELSE IF server.password \notin {None, ""}
            THEN IF LowerStr(server.password_encoding) = ENC_BASE64
                 THEN IF server.password \in DOMAIN WellFormed
                      THEN r.exc = None /\ r.value = WellFormed[server.password]
                      ELSE r.exc = "ConfigError"
                 ELSE r.exc = None /\ r.value = server.password
            ELSE r.exc = None /\ r.value = None

\* C20: get_default_identity returns the identity named by
\* defaults.default_identity, compared without regard to case, if there is
\* one; otherwise the first identity in load order; otherwise, when the
\* registry has no identities, none.
C20_DefaultIdentity ==
    (kpc = "answered" /\ answer.op = "get_default_identity") =>
        LET ids == config.value.identities
            wanted == config.value.defaults.default_identity
            named == {i \in 1..Len(ids) :
                        wanted # NoneStr /\ LowerStr(ids[i].name) = LowerStr(wanted)}
        IN  IF named # {}
            THEN /\ \E i \in named : answer.value = ids[i]
                 /\ LowerStr(answer.value.name) = LowerStr(wanted)
            ELSE IF Len(ids) >= 1 THEN answer.value = ids[1]
            ELSE answer.value = Null

\* the default names no identity of a registry of two: the first is returned
C20_Witness ==
    /\ kpc = "answered" /\ answer.op = "get_default_identity"
    /\ config.value.defaults.default_identity = <<"Z">>
    /\ Len(config.value.identities) = 2
    /\ config.value.identities[1] # config.value.identities[2]
    /\ answer.value = config.value.identities[1]


\* ------------------------------------------------------------------------
\* Properties of the template
\* ------------------------------------------------------------------------
Lines == SplitLines(generated)

IsFromLine(l) == StartsWith(l, FROM_) \/ StartsWith(l, <<"#">> \o FROM_)
IsReplyToLine(l) == StartsWith(l, REPLY_TO_) \/ StartsWith(l, <<"#">> \o REPLY_TO_)
FromLines == SelectSeq(Lines, IsFromLine)
ReplyToLines == SelectSeq(Lines, IsReplyToLine)

EndsWith(s, p) == Len(s) >= Len(p) /\ SubSeq(s, Len(s) - Len(p) + 1, Len(s)) = p
Elems(seq) == {seq[i] : i \in 1..Len(seq)}
Least(S) == CHOOSE i \in S : \A j \in S : i <= j

\* the positions of the identities the requested name names
Requested ==
    {i \in 1..Len(fields.config.identities) :
        /\ fields.identity_name # NoneStr
        /\ LowerStr(fields.config.identities[i].name) = LowerStr(fields.identity_name)}

\* the identity generate_template is to select: the requested one if the name
\* resolves, otherwise the default identity
Chosen ==
    IF Requested # {} THEN fields.config.identities[Least(Requested)]
    ELSE get_default_identity(fields.config)

\* the values of the field set, the selected identity's included
Values ==
    Elems(fields.recipients) \cup Elems(fields.cc) \cup Elems(fields.bcc)
    \cup ({fields.subject, fields.body, fields.custom_display_name, fields.reply_to}
          \ {NoneStr})
    \cup {Chosen.email, Chosen.display_name} \cup Elems(Chosen.reply_to)

Collides(v) ==
    \/ Contains(v, <<":">>)
    \/ Contains(v, <<"#">>)
    \/ \E l \in Elems(SplitLines(v)) : Strip(l) = TEMPLATE_SEPARATOR

\* the From of the field set is one configured identity, selected by name
OneFromByName ==
    /\ Requested # {}
    /\ Cardinality({i \in 1..Len(fields.config.identities) :
                       fields.config.identities[i] = Chosen}) = 1

\* what the round trip is to return
Expected ==
    LET name == OrElse(fields.custom_display_name, Chosen.display_name)
    IN  ComposedEmail(fields.recipients, fields.cc, fields.bcc, Chosen.email,
                      IF name = <<>> THEN NoneStr ELSE name,
                      IF fields.reply_to \in Elems(Chosen.reply_to)
                      THEN fields.reply_to ELSE Chosen.reply_to[1],
                      OrElse(fields.subject, <<>>),
                      Strip(OrElse(fields.body, <<>>)),
                      FALSE)

C15_OneFromSelected ==
    tpc # "start" =>
        LET ids == fields.config.identities
            open == {i \in 1..Len(FromLines) : StartsWith(FromLines[i], FROM_)}
        IN  /\ Len(FromLines) = Len(ids)
            /\ \A i \in 1..Len(ids) :
                 /\ EndsWith(FromLines[i], <<"[">> \o ids[i].name \o <<"]">>)
                 /\ Contains(FromLines[i], ids[i].email)
            /\ ids # <<>> =>
                 /\ Cardinality(open) = 1
                 /\ \A i \in open : ids[i] = Chosen
            /\ ids = <<>> => open = {}

\* C16: when the selected identity has more than one allowed reply-to address
\* generate_template renders one Reply-To line per allowed address, in order,
\* and exactly one of them is uncommented: the requested reply-to if it is
\* one of the allowed addresses, otherwise the first allowed address.
C16_OneReplyToSelected ==
    (tpc # "start" /\ fields.config.identities # <<>> /\ Len(Chosen.reply_to) > 1) =>
        LET allowed == Chosen.reply_to
            wanted == IF fields.reply_to \in Elems(allowed) THEN fields.reply_to
                      ELSE allowed[1]
            open == {i \in 1..Len(ReplyToLines) : StartsWith(ReplyToLines[i], REPLY_TO_)}
        IN  /\ Len(ReplyToLines) = Len(allowed)
            /\ \A i \in 1..Len(allowed) : EndsWith(ReplyToLines[i], REPLY_TO_ \o allowed[i])
            /\ Cardinality(open) = 1
            /\ \A i \in open : allowed[i] = wanted


\* C13: parse_template fails, with the error that names the missing
\* separator, if and only if no line of the text equals '---' once trimmed;
\* for every text with such a line it returns a ComposedEmail that is not
\* cancelled, whatever the header lines before it are.
C13_FailsIffNoSeparator ==
    Did("parse_template") =>
        LET text == file.content
            separated == \E i \in 1..Len(text) : Strip(text[i]) = TEMPLATE_SEPARATOR
        IN  /\ ~separated <=>
                 pending = [kind |-> "raised", exc |-> "ComposerError",
                            why |-> "missing separator"]
            /\ separated <=> pending.kind = "returned"
            /\ separated => pending.value.cancelled = FALSE

\* a text with the To header twice, a line that is no header and a padded
\* separator was parsed
C13_Witness ==
    /\ Did("parse_template")
    /\ file.content \in {<<LINE_TO, LINE_TO, LINE_SEP_PADDED>>,
                         <<LINE_TEXT, LINE_FROM, LINE_SEP_PADDED>>}
    /\ pending.kind = "returned"
    /\ ~pending.value.cancelled


\* ------------------------------------------------------------------------
\* Properties of the validation
\* ------------------------------------------------------------------------
\* C17: validate returns the empty list if and only if the data has at least
\* one recipient (an address in to, cc or bcc), a from address that is not
\* empty, and every attachment path exists and is a regular file.
C17_ValidIff ==
    vpc = "validated" =>
        (errors = <<>> <=>
            /\ all_recipients(email_data) # <<>>
            /\ email_data.from_addr # <<>>
            /\ \A i \in 1..Len(email_data.attachments) :
                 paths[email_data.attachments[i]] = "file")


\* ------------------------------------------------------------------------
\* Properties of a program run
\* ------------------------------------------------------------------------
Called(i, name) == rlog[i][1] = name

\* C12: when the editing session returns a cancelled ComposedEmail, the run
\* ends at once with exit code 0: the cancelled session is the last call
\* made, and no validate, confirm_send, build_message or send_email (which
\* alone opens SMTP connections) is among the calls of the run.
C12_CancelStops ==
    \A i \in 1..Len(rlog) :
        (Called(i, "compose_interactively") /\ rlog[i][2] = "cancelled") =>
            /\ rpc = "exited"
            /\ exit_code = 0
            /\ i = Len(rlog)
            /\ \A j \in 1..Len(rlog) :
                 rlog[j][1] \notin {"validate", "confirm_send", "build_message",
                                    "send_email"}

C12_Witness ==
    /\ rpc = "exited"
    /\ Len(rlog) = 1
    /\ Called(1, "compose_interactively") /\ rlog[1][2] = "cancelled"
    /\ exit_code = 0
    /\ locals.identity # Null


\* ------------------------------------------------------------------------
\* Properties of the lookups
\* ------------------------------------------------------------------------
IsLookup ==
    /\ kpc = "answered"
    /\ answer.op \in {"get_smtp_server", "get_identity", "get_identity_by_email"}

\* the list a lookup goes through and the key it compares
Searched ==
    IF answer.op = "get_smtp_server" THEN config.value.smtp_servers
    ELSE config.value.identities

KeyOf(entry) == IF answer.op = "get_identity_by_email" THEN entry.email ELSE entry.name

Matching ==
    {i \in 1..Len(Searched) : LowerStr(KeyOf(Searched[i])) = LowerStr(answer.arg)}

\* C21: get_smtp_server, get_identity and get_identity_by_email compare the
\* whole key, ignoring case; they return the first matching entry in load
\* order, none when no entry matches, and leave the registry as it was.
C21_Lookups ==
    IsLookup =>
        /\ answer.value = Null <=> Matching = {}
        /\ Matching # {} =>
             \E i \in Matching : /\ answer.value = Searched[i]
                                 /\ \A j \in Matching : i <= j
        /\ config.value = IF "direct" \in DOMAIN toml THEN toml.direct
                          ELSE load_config(toml).value

\* two different identities match the key, which differs from theirs in case
C21_Witness ==
    /\ IsLookup
    /\ Cardinality(Matching) = 2
    /\ Searched[1] # Searched[2]
    /\ answer.arg # KeyOf(Searched[1])
    /\ answer.value = Searched[1]


\* ------------------------------------------------------------------------
\* Properties of test_connection
\* ------------------------------------------------------------------------
IsProbe(e) == e[1] = "probe"
Probes == SelectSeq(log, IsProbe)

\* C22: test_connection probes the positions of the port list in order, each
\* at most once; a probe succeeds when connect, STARTTLS (where used), login
\* (where used) and quit all succeed, and the first success ends the call;
\* no message is transmitted, nothing waits, and the result is success
\* exactly when some probe succeeded.
C22_TestConnection ==
    pc \in {"test_port", "returned"} =>
        /\ \A i \in 1..Len(Probes) :
             /\ Probes[i][2] = i
             /\ Probes[i][3] = smtp_server.ports[i]
             /\ i < Len(Probes) => Probes[i][5] # "return"
             /\ \A k \in 1..Len(Probes[i][4]) :
                  Probes[i][4][k] \notin {"sendmail", "noop"}
             /\ Probes[i][5] = "return" => Probes[i][4][Len(Probes[i][4])] = "quit"
        /\ Len(Probes) <= Len(smtp_server.ports)
        /\ \A i \in 1..Len(log) : ~IsWait(log[i])
        /\ lastCycle.outcome = "return" =>
             pc = "returned" /\ lastCycle.quitErr = "ok"
        /\ pc = "returned" =>
             /\ result.success <=> \E i \in 1..Len(Probes) : Probes[i][5] = "return"
             /\ ~result.success => Len(Probes) = Len(smtp_server.ports)


\* the first port failed at quit, the second port succeeded, with login
C22_Witness ==
    /\ pc = "returned" /\ result.success
    /\ Len(Probes) = 2
    /\ Probes[1][4] = <<"connect", "starttls", "login", "quit">>
    /\ Probes[1][5] = "SMTPException"
    /\ Probes[2][5] = "return"


\* ------------------------------------------------------------------------
\* Properties of the editor selection
\* ------------------------------------------------------------------------
Unset(value) == value \in {None, ""}

\* C23: the editor is the value of VISUAL if it is set and not empty,
\* otherwise the value of EDITOR if it is set and not empty, otherwise vi.
C23_EditorPriority ==
    editor # None =>
        /\ ~Unset(environ.VISUAL) => editor = environ.VISUAL
        /\ Unset(environ.VISUAL) /\ ~Unset(environ.EDITOR) => editor = environ.EDITOR
        /\ Unset(environ.VISUAL) /\ Unset(environ.EDITOR) => editor = "vi"

\* both variables are set, and the editor is the one VISUAL names
C23_Witness ==
    /\ editor = "vim"
    /\ environ.EDITOR = "nano"
    /\ cpc # "TempCreated"


\* ------------------------------------------------------------------------
\* Properties of the delivery cycle
\* ------------------------------------------------------------------------
LastStep(c) == c.steps[Len(c.steps)]

\* C24: every delivery cycle that got a connection ends with an attempt to
\* quit, whatever its outcome (STARTTLS failure included), and an error of
\* quit does not replace the outcome: a refusal stays a MailerError.
C24_QuitAlways ==
    lastCycle.outcome # "none" /\ Len(lastCycle.steps) > 1 =>
        /\ LastStep(lastCycle) = "quit"
        /\ lastCycle.refused # {} /\ "noop" \notin Elems(lastCycle.steps) =>
             lastCycle.outcome = "MailerError"


C26_LoadedPorts ==
    Loaded /\ config.exc = None =>
        \A i \in 1..Len(config.value.smtp_servers) :
            config.value.smtp_servers[i].ports # <<>>


\* ------------------------------------------------------------------------
\* Properties of repeated headers
\* ------------------------------------------------------------------------
\* the values of the active lines of the header region that carry the key,
\* in order
RECURSIVE HeaderValues(_, _)
HeaderValues(lines, key) ==
    IF lines = <<>> THEN <<>>
    ELSE LET line == Strip(Head(lines))
             v0 == Strip(After(line, <<":">>))
             value == IF Contains(v0, ANNOTATION) THEN Strip(Before(v0, ANNOTATION))
                      ELSE v0
             active == /\ line # <<>>
                       /\ ~StartsWith(line, COMMENT_MARK)
                       /\ Contains(line, <<":">>)
         IN  (IF active /\ LowerStr(Strip(Before(line, <<":">>))) = key
              THEN <<value>> ELSE <<>>)
             \o HeaderValues(Tail(lines), key)

HeaderRegion == SubSeq(Lines, 1, SeparatorIdx(Lines) - 1)

SubjectValues == HeaderValues(HeaderRegion, <<"s", "u", "b", "j", "e", "c", "t">>)

ToValues == HeaderValues(HeaderRegion, <<"t", "o">>)

RECURSIVE DropLeadingEmpty(_)
DropLeadingEmpty(values) ==
    IF values # <<>> /\ Head(values) = <<>> THEN DropLeadingEmpty(Tail(values))
    ELSE values

\* the claim as stated: the value of a repeated key is all its values joined
C27_JoinAll ==
    tpc = "parsed" /\ parsed.exc = None =>
        /\ parsed.value.subject = Join(SubjectValues, <<",", " ">>)
        /\ parsed.value.to = AddrList(Join(ToValues, <<",", " ">>))

\* C27: when a header key occurs on more than one active line of the header
\* region, the parsed value of the key is the values of those lines from the
\* first non-empty one on, in order, joined by ", "; empty values before it
\* are dropped, empty values after it are joined like any other. Two active
\* To lines yield the recipients of both lines.
C27_JoinFromFirstValue ==
    tpc = "parsed" /\ parsed.exc = None =>
        /\ parsed.value.subject = Join(DropLeadingEmpty(SubjectValues), <<",", " ">>)
        /\ parsed.value.to = AddrList(Join(ToValues, <<",", " ">>))

\* an empty Subject line, then two Subject lines with a value
C27_Witness ==
    /\ tpc = "parsed" /\ parsed.exc = None
    /\ SubjectValues = << <<>>, <<"x">>, <<"y">> >>
    /\ parsed.value.subject = <<"x", ",", " ", "y">>


\* ------------------------------------------------------------------------
\* Properties of authentication
\* ------------------------------------------------------------------------
Position(steps, step) == CHOOSE i \in 1..Len(steps) : steps[i] = step

HasCredentials == Truthy(smtp_server.user) /\ Truthy(password)

\* C28: a delivery cycle has a login step only if the server has a username
\* and the resolved secret is present, both non-empty; a cycle that got its
\* connection (and STARTTLS, where used) has a login step exactly then;
\* without one it goes on to transmission with no authentication, and a
\* login step always comes before the sendmail step.
C28_Authenticates ==
    lastCycle.steps # <<>> =>
        LET steps == lastCycle.steps
        IN  /\ lastCycle.pwUsed = password
            /\ "login" \in Elems(steps) => HasCredentials
            /\ "quit" \in Elems(steps) => ("login" \in Elems(steps) <=> HasCredentials)
            /\ "login" \in Elems(steps) /\ "sendmail" \in Elems(steps) =>
                 Position(steps, "login") < Position(steps, "sendmail")
            /\ ~HasCredentials /\ "sendmail" \in Elems(steps) =>
                 /\ Position(steps, "sendmail") >= 2
                 /\ steps[Position(steps, "sendmail") - 1] \in {"connect", "starttls"}

\* a username, a password command that printed nothing: no login, and the
\* message is transmitted
C28_Witness ==
    /\ smtp_server.user = "user"
    /\ password = ""
    /\ "sendmail" \in Elems(lastCycle.steps)
    /\ "login" \notin Elems(lastCycle.steps)
    /\ lastCycle.outcome = "return"


\* ------------------------------------------------------------------------
\* Properties of sending in a program run
\* ------------------------------------------------------------------------
CallsOf(name) == {i \in 1..Len(rlog) : Called(i, name)}

CalledWith(name, arg) == \E i \in CallsOf(name) : rlog[i][2] = arg

ConfirmationRequired == ~locals.skip_confirmation /\ rargs.tty

\* C29: send_email is called at most once in a run, and only when the
\* composition was not cancelled, the body was not discarded as empty,
\* validate returned no errors, dry-run is off, the confirmation prompt
\* (when required) was accepted and an SMTP server was resolved; a run on
\* which one of these fails ends with no call of send_email.
C29_SendOnlyWhenCleared ==
    CallsOf("send_email") # {} =>
        /\ Cardinality(CallsOf("send_email")) = 1
        /\ CallsOf("send_email") = {Len(rlog)}
        /\ ~CalledWith("compose_interactively", "cancelled")
        /\ ~CalledWith("compose_interactively", "raised")
        /\ ~(is_empty(locals.email_data) /\ rargs.discard_empty)
        /\ CallsOf("validate") # {} /\ validate(locals.email_data, <<>>) = <<>>
        /\ ~rargs.dry_run
        /\ ConfirmationRequired => CalledWith("confirm_send", "yes")
        /\ ~CalledWith("confirm_send", "no")
        /\ locals.smtp_server # Null
        /\ \A i \in CallsOf("validate") \cup CallsOf("confirm_send") : i < Len(rlog)

\* a run that composed in the editor, asked for confirmation and sent
C29_Witness ==
    /\ rpc = "exited"
    /\ CallsOf("send_email") # {}
    /\ CalledWith("compose_interactively", "composed")
    /\ CalledWith("confirm_send", "yes")
    /\ is_empty(locals.email_data)


\* the send_email call of the run: the server it is given and the From
\* address of the message
SentVia == rlog[Len(rlog)][2]
SentFrom == rlog[Len(rlog)][3]

\* the identity passed to the editing session, selected before editing
SelectedBefore ==
    LET i == CHOOSE j \in CallsOf("compose_interactively") : TRUE
    IN  get_identity(locals.config, rlog[i][3])

\* C30: on the interactive path, a message whose edited From address matches
\* a configured identity by email is sent through that identity's server,
\* and a message whose From address matches none is not sent through the
\* server of the identity selected before editing.
C30_ServerOfFrom ==
    CallsOf("send_email") # {} /\ CallsOf("compose_interactively") # {} =>
        LET owner == get_identity_by_email(locals.config, SentFrom)
        IN  /\ owner # Null =>
                 SentVia = get_smtp_for_identity(locals.config, owner).name
            /\ owner = Null =>
                 SentVia # get_smtp_for_identity(locals.config, SelectedBefore).name

====
